---- MODULE Spec2Model ----
(***************************************************************************)
(* Fokus browser extension: blocklist merge engine, rule compiler,         *)
(* navigation gatekeeper and sync scheduler.                               *)
(*                                                                         *)
(* JavaScript strings are sequences of one-character strings, so that      *)
(* toLowerCase, replace(/^.../) and includes are computed, not assumed.    *)
(* JavaScript objects are sequences of [k, v] pairs in insertion order, so *)
(* that a missing property and JSON.stringify's key order are visible.     *)
(***************************************************************************)
EXTENDS Integers, Sequences, FiniteSets, TLC

VARIABLES
    \* --- Blocklist Merge Engine (SyncService.resolveBlocklistConflicts)
    local,            \* the locally cached blocklist handed to the merge, or absent
    remote,           \* the remote blocklist handed to the merge, or absent
    strategy,         \* CONFIG.SYNC.CONFLICT_RESOLUTION
    resolved,         \* what resolveBlocklistConflicts returned (or that it threw)
    \* --- Background service and the stores it works on
    session,          \* supabaseClient.session: is a user signed in
    remoteRow,        \* the user's row of the remote table user_blocklists
    cache,            \* chrome.storage.local['fokus_blocklist'], or absent
    installedRules,   \* the dynamic rules installed in declarativeNetRequest
    response,         \* what the last message handler answered
    reply,            \* what the message listener last passed to sendResponse
    \* --- Navigation Gatekeeper (BackgroundService.checkUrlBlocked)
    prevCheck,        \* the invocation before the last one
    lastCheck,        \* the last invocation: url, stores before it, decision
    \* --- Sync Scheduler (SyncService)
    syncInProgress,   \* this.syncInProgress
    isOnline,         \* this.isOnline
    lastSyncTime,     \* this.lastSyncTime: 0 for null, else the cycle that set it
    lastSyncStored,   \* storage['last_sync_time']: 0 when there is none
    syncQueue,        \* this.syncQueue: the pending operations
    retryCount,       \* this.retryCount
    syncInterval,     \* this.syncInterval: is the periodic timer set
    retryTimers,      \* the delays of the retry timeouts set and not yet fired
    debounceTimer,    \* this.syncDebounceTimer: is the debounce timeout pending
    cycles,           \* how many invocations of syncNow have started a cycle
    calls,            \* the invocations of syncNow that have not resolved
    returned,         \* the invocation of syncNow that resolved last
    drains,           \* the invocations of processSyncQueue in flight
    intervalTimers,   \* the interval timers set by setInterval and not cleared
    opsMade,          \* the keys of the operations queueSync has pushed so far
    applied,          \* the operations whose remote write has succeeded
    lastStart,        \* how the last start() since the last stop() ended
    \* --- The browser around the extension
    applying,         \* the invocations of applyBlockingRules, by slot
    tab,              \* what the navigating tab has been sent to last
    navigations,      \* the onBeforeNavigate listeners awaiting logBlockEvent
    \* --- StorageManager over chrome.storage.local
    area,             \* the _timestamp of every stored entry, by key
    setCall,          \* the last invocation of StorageManager.set
    \* --- SupabaseClient session
    auth,             \* this.session, storage['AUTH'], the clock, the last answer
    \* --- Blocklist mutations between their awaits
    mutating,         \* the invocations of addDomain, addKeyword, removeDomain
    \* --- StorageManager instances over one key
    kv,               \* the stored value, each instance's cache entry, the clock
    \* --- AUTH_SIGN_OUT between its awaits
    signingOut        \* the invocation of the AUTH_SIGN_OUT handler

mergeVars == <<local, remote, strategy, resolved>>
storeVars == <<session, remoteRow, cache, installedRules, response>>
gateVars == <<prevCheck, lastCheck>>
schedVars == <<intervalTimers, opsMade, applied, lastStart>>
auxVars == <<reply, intervalTimers, opsMade, applied, lastStart>>
areaVars == <<area, setCall>>
lateVars == <<auth, mutating, kv, signingOut>>
browserVars == <<applying, tab, navigations, area, setCall, auth, mutating, kv,
                 signingOut>>
syncVars == <<syncInProgress, isOnline, lastSyncTime, lastSyncStored, syncQueue,
              retryCount, syncInterval, retryTimers, debounceTimer, cycles,
              calls, returned, drains>>

vars == <<local, remote, strategy, resolved,
          session, remoteRow, cache, installedRules, response,
          prevCheck, lastCheck,
          syncInProgress, isOnline, lastSyncTime, lastSyncStored, syncQueue,
          retryCount, syncInterval, retryTimers, debounceTimer, cycles,
          calls, returned, drains,
          reply, intervalTimers, opsMade, applied, lastStart,
          applying, tab, navigations, area, setCall, auth, mutating, kv,
          signingOut>>

-----------------------------------------------------------------------------
(* Bounds of the model *)

\* longest list of entries enumerated for one field of a merge input
MaxListLen == 2

\* sync cycles started in one behaviour
MaxCycles == 2

\* pending operations held at one time, queued or being replayed
MaxPending == 1

-----------------------------------------------------------------------------
(* JavaScript strings *)

UpperChars == <<"A","B","C","D","E","F","G","H","I","J","K","L","M",
                "N","O","P","Q","R","S","T","U","V","W","X","Y","Z">>
LowerChars == <<"a","b","c","d","e","f","g","h","i","j","k","l","m",
                "n","o","p","q","r","s","t","u","v","w","x","y","z">>

UpperToLower ==
    [c \in {UpperChars[i] : i \in 1..Len(UpperChars)} |->
        LowerChars[CHOOSE i \in 1..Len(UpperChars) : UpperChars[i] = c]]

LowerChar(c) == IF c \in DOMAIN UpperToLower THEN UpperToLower[c] ELSE c

\* String.prototype.toLowerCase
toLowerCase(s) == [i \in 1..Len(s) |-> LowerChar(s[i])]

\* String.prototype.startsWith
startsWith(s, p) == Len(s) >= Len(p) /\ SubSeq(s, 1, Len(p)) = p

\* String.prototype.includes
strIncludes(s, sub) ==
    \E i \in 0..(Len(s) - Len(sub)) : SubSeq(s, i + 1, i + Len(sub)) = sub

\* s without its first n characters
Drop(s, n) == SubSeq(s, n + 1, Len(s))

\* Array.prototype.includes: strict equality with some element
arrIncludes(arr, x) == \E i \in 1..Len(arr) : arr[i] = x

\* [...new Set(arr)]: first occurrences, in order
RECURSIVE Unique(_)
Unique(arr) ==
    IF arr = <<>> THEN <<>>
    ELSE LET init == Unique(SubSeq(arr, 1, Len(arr) - 1))
             last == arr[Len(arr)]
         IN  IF arrIncludes(init, last) THEN init ELSE Append(init, last)

\* Array.prototype.filter(e => e !== x)
RECURSIVE Without(_, _)
Without(arr, x) ==
    IF arr = <<>> THEN <<>>
    ELSE IF arr[1] = x THEN Without(Tail(arr), x)
         ELSE <<arr[1]>> \o Without(Tail(arr), x)

-----------------------------------------------------------------------------
(* String literals of the source and of the inputs *)

\* "x.com"
S_x_com == <<"x",".","c","o","m">>
\* "y.com"
S_y_com == <<"y",".","c","o","m">>
\* "news"
S_news == <<"n","e","w","s">>
\* "News"
S_News == <<"N","e","w","s">>
\* "https://github.com/u/list"
S_list_url == <<"h","t","t","p","s",":","/","/","g","i","t","h","u","b",".","c","o","m","/","u","/","l","i","s","t">>
\* "https://example.org/list"
S_bad_list_url == <<"h","t","t","p","s",":","/","/","e","x","a","m","p","l","e",".","o","r","g","/","l","i","s","t">>
\* "WWW.Example.COM/"
S_WWW_Example_COM_slash == <<"W","W","W",".","E","x","a","m","p","l","e",".","C","O","M","/">>
\* "example.com"
S_example_com == <<"e","x","a","m","p","l","e",".","c","o","m">>
\* "www.example.com/"
S_www_example_com_slash == <<"w","w","w",".","e","x","a","m","p","l","e",".","c","o","m","/">>
\* "https://www.example.com"
S_https_www_example_com == <<"h","t","t","p","s",":","/","/","w","w","w",".","e","x","a","m","p","l","e",".","c","o","m">>
\* "blocked.com"
S_blocked_com == <<"b","l","o","c","k","e","d",".","c","o","m">>
\* "https://"
S_https == <<"h","t","t","p","s",":","/","/">>
\* "http://"
S_http == <<"h","t","t","p",":","/","/">>
\* "www."
S_www == <<"w","w","w",".">>
\* "github.com"
S_github_com == <<"g","i","t","h","u","b",".","c","o","m">>
\* "#"
S_hash == <<"#">>
\* "."
S_dot == <<".">>
\* "/"
S_slash == <<"/">>
\* " "
S_space == <<" ">>
\* "# hosts"
S_comment_line == <<"#"," ","h","o","s","t","s">>
\* " WWW.Example.COM/ "
S_padded_line == <<" ","W","W","W",".","E","x","a","m","p","l","e",".","C","O","M","/"," ">>
\* "localhost"
S_localhost == <<"l","o","c","a","l","h","o","s","t">>
\* "https://sub.blocked.com/page"
S_url_sub == <<"h","t","t","p","s",":","/","/","s","u","b",".","b","l","o","c","k","e","d",".","c","o","m","/","p","a","g","e">>
\* "https://blocked.com/news"
S_url_exact == <<"h","t","t","p","s",":","/","/","b","l","o","c","k","e","d",".","c","o","m","/","n","e","w","s">>
\* "HTTPS://WWW.Blocked.com/"
S_url_www == <<"H","T","T","P","S",":","/","/","W","W","W",".","B","l","o","c","k","e","d",".","c","o","m","/">>
\* "https://other.org/Daily-NEWS"
S_url_keyword == <<"h","t","t","p","s",":","/","/","o","t","h","e","r",".","o","r","g","/","D","a","i","l","y","-","N","E","W","S">>
\* "https://other.org/"
S_url_clean == <<"h","t","t","p","s",":","/","/","o","t","h","e","r",".","o","r","g","/">>
\* "blocked.com/page"
S_url_invalid == <<"b","l","o","c","k","e","d",".","c","o","m","/","p","a","g","e">>
\* "https://notblocked.com/"
S_url_notblocked == <<"h","t","t","p","s",":","/","/","n","o","t","b","l","o","c","k","e","d",".","c","o","m","/">>
\* "t1"
S_t1 == <<"t","1">>
\* "t2"
S_t2 == <<"t","2">>
\* "The domain ""
S_domain_reason_pre == <<"T","h","e"," ","d","o","m","a","i","n"," ","\"">>
\* "" is blocked"
S_domain_reason_post == <<"\""," ","i","s"," ","b","l","o","c","k","e","d">>
\* "URL contains blocked keyword: ""
S_keyword_reason_pre == <<"U","R","L"," ","c","o","n","t","a","i","n","s"," ","b","l","o","c","k","e","d"," ","k","e","y","w","o","r","d",":"," ","\"">>
\* """
S_quote == <<"\"">>
\* "||"
S_rule_pre == <<"|","|">>
\* "^"
S_rule_post == <<"^">>

-----------------------------------------------------------------------------
(* JavaScript objects: sequences of [k |-> key, v |-> value] in key order *)

Has(obj, key) == \E i \in 1..Len(obj) : obj[i].k = key

Get(obj, key) == obj[CHOOSE i \in 1..Len(obj) : obj[i].k = key].v

\* obj.key || []
GetOrEmpty(obj, key) == IF Has(obj, key) THEN Get(obj, key) ELSE <<>>

\* {...obj, key: val}: an own key keeps its place, a new key goes last
Put(obj, key, val) ==
    IF Has(obj, key)
    THEN [i \in 1..Len(obj) |-> IF obj[i].k = key THEN [k |-> key, v |-> val] ELSE obj[i]]
    ELSE Append(obj, [k |-> key, v |-> val])

\* JSON.stringify(a) === JSON.stringify(b): same keys in the same order
\* with the same values (arrays compared element by element, in order)
JsonEqual(a, b) ==
    /\ Len(a) = Len(b)
    /\ \A i \in 1..Len(a) :
          IF a[i].k = b[i].k THEN a[i].v = b[i].v ELSE FALSE

\* a value that may be null/undefined
Absent == [present |-> FALSE, obj |-> <<>>]
Present(o) == [present |-> TRUE, obj |-> o]

-----------------------------------------------------------------------------
(* Blocklist Merge Engine *)

Strategies == {"server_wins", "client_wins", "merge"}

ListFields == <<"keywords", "domains", "github_urls">>

\* the union taken from the remote side alone
MergedField_RemoteOnly(l, r, f) == Unique(GetOrEmpty(r, f))

\* merged = {...remote, keywords: [...new Set([...local.keywords || [],
\* ...remote.keywords || []])], domains: ..., github_urls: ...}
MergedField(l, r, f) == Unique(GetOrEmpty(l, f) \o GetOrEmpty(r, f))

CombineUnique(l, r) ==
    Put(Put(Put(r, "keywords", MergedField(l, r, "keywords")),
                   "domains", MergedField(l, r, "domains")),
                   "github_urls", MergedField(l, r, "github_urls"))

\* merged.f.length > remote.f.length reads remote.f.length: a TypeError when
\* remote carries no f
LengthThrows(r, f) == ~Has(r, f)

Longer(m, r, f) == Len(Get(m, f)) > Len(Get(r, f))

\* a || b || c evaluated left to right with short-circuit: "throw" when an
\* operand that is reached reads a missing field
RECURSIVE LocalChangesFrom(_, _, _)
LocalChangesFrom(m, r, n) ==
    IF n > Len(ListFields) THEN "false"
    ELSE IF LengthThrows(r, ListFields[n]) THEN "throw"
    ELSE IF Longer(m, r, ListFields[n]) THEN "true"
    ELSE LocalChangesFrom(m, r, n + 1)

Thrown == [threw |-> TRUE, hasChanges |-> FALSE, hasLocalChanges |-> FALSE,
           localChanges |-> FALSE, merged |-> Absent]

\* a result that never asks the caller to push the local side upstream
Returned_NoLocalChanges(hc, hasLc, lc, m) ==
    [threw |-> FALSE, hasChanges |-> hc, hasLocalChanges |-> hasLc,
     localChanges |-> FALSE, merged |-> m]

Returned(hc, hasLc, lc, m) ==
    [threw |-> FALSE, hasChanges |-> hc, hasLocalChanges |-> hasLc,
     localChanges |-> lc, merged |-> m]

\* SyncService.resolveBlocklistConflicts(local, remote) under strategy s
resolveBlocklistConflicts(l, r, s) ==
    IF ~l.present /\ ~r.present THEN Returned(FALSE, FALSE, FALSE, Absent)
    ELSE IF ~l.present THEN Returned(TRUE, TRUE, FALSE, r)
    ELSE IF ~r.present THEN Returned(TRUE, TRUE, TRUE, l)
    ELSE IF s = "server_wins"
         THEN Returned(~JsonEqual(l.obj, r.obj), TRUE, FALSE, r)
    ELSE IF s = "client_wins"
         THEN Returned(~JsonEqual(l.obj, l.obj), TRUE, TRUE, l)
    ELSE LET m  == CombineUnique(l.obj, r.obj)
             lc == LocalChangesFrom(m, r.obj, 1)
         IN  IF lc = "throw" THEN Thrown
             ELSE Returned(~JsonEqual(l.obj, m), TRUE, lc = "true", Present(m))

-----------------------------------------------------------------------------
(* Remote Data Client: the blocklist row and its local cache *)

\* the row created for a user on first authentication
EmptyRow == <<[k |-> "keywords", v |-> <<>>], [k |-> "domains", v |-> <<>>],
              [k |-> "github_urls", v |-> <<>>], [k |-> "updated_at", v |-> S_t2]>>

\* SupabaseClient.getUserBlocklist: the remote row, cached on the way; the
\* cached copy when the request fails; a failure when there is neither
getUserBlocklist(sess, row, cch, netOk) ==
    IF ~sess THEN [success |-> FALSE, data |-> <<>>, cache |-> cch]
    ELSE IF netOk THEN [success |-> TRUE, data |-> row, cache |-> Present(row)]
    ELSE IF cch.present THEN [success |-> TRUE, data |-> cch.obj, cache |-> cch]
    ELSE [success |-> FALSE, data |-> <<>>, cache |-> cch]

\* the PATCH body: the three lists of updates and a fresh updated_at
FormattedUpdates(row, updates) ==
    Put(Put(Put(Put(row, "keywords", GetOrEmpty(updates, "keywords")),
                         "domains", GetOrEmpty(updates, "domains")),
                         "github_urls", GetOrEmpty(updates, "github_urls")),
                         "updated_at", S_t2)

\* SupabaseClient.updateUserBlocklist: PATCH the row, cache the returned row
updateUserBlocklist(sess, row, cch, updates, netOk) ==
    IF sess /\ netOk
    THEN LET newRow == FormattedUpdates(row, updates)
         IN  [success |-> TRUE, data |-> newRow, row |-> newRow, cache |-> Present(newRow)]
    ELSE [success |-> FALSE, data |-> <<>>, row |-> row, cache |-> cch]

-----------------------------------------------------------------------------
(* Rule Compiler *)

\* CONFIG.BLOCKING.MAX_RULES, "Chrome's limit for declarativeNetRequest"
MAX_RULES == 30000

\* every rule gets the same id
RuleFor_SameId(ruleId, domain) ==
    [id |-> 1, priority |-> 1, urlFilter |-> S_rule_pre \o domain \o S_rule_post]

\* rules.push({id: ruleId++, priority: 1, condition: {urlFilter: `||${domain}^`}})
RuleFor(ruleId, domain) ==
    [id |-> ruleId, priority |-> 1, urlFilter |-> S_rule_pre \o domain \o S_rule_post]

\* for (const domain of blocklist.domains) rules.push(rule with id ruleId++):
\* the rules of the entries first..last, ruleId being the entry's position
RECURSIVE RulesOf(_, _, _)
RulesOf(domains, first, last) ==
    IF first > last THEN <<>>
    ELSE IF first = last THEN <<RuleFor(first, domains[first])>>
    ELSE RulesOf(domains, first, (first + last) \div 2)
             \o RulesOf(domains, (first + last) \div 2 + 1, last)

\* the rules array built by applyBlockingRules: one rule per entry of
\* blocklist.domains, ruleId counting up from 1
CompileRules(blocklist) ==
    IF Has(blocklist, "domains") /\ Len(Get(blocklist, "domains")) > 0
    THEN LET domains == Get(blocklist, "domains")
         IN  RulesOf(domains, 1, Len(domains))
    ELSE <<>>

\* chrome.declarativeNetRequest.updateDynamicRules({removeRuleIds: every
\* installed id, addRules: rules}): all or nothing, rejected above the limit
UpdateDynamicRules(installed, rules) ==
    IF Len(rules) <= MAX_RULES
    THEN [rejected |-> FALSE, installed |-> rules]
    ELSE [rejected |-> TRUE, installed |-> installed]

\* BackgroundService.applyBlockingRules: a rejection is logged and swallowed
applyBlockingRules(installed, blocklist) ==
    UpdateDynamicRules(installed, CompileRules(blocklist)).installed

\* existingRules.map(rule => rule.id)
IdsOf(rules) == {rules[i].id : i \in 1..Len(rules)}

\* the rules of a sequence whose id is not in ids, in their order
RECURSIVE Remaining(_, _)
Remaining(rules, ids) ==
    IF rules = <<>> THEN <<>>
    ELSE IF rules[1].id \in ids THEN Remaining(Tail(rules), ids)
    ELSE <<rules[1]>> \o Remaining(Tail(rules), ids)

\* chrome.declarativeNetRequest.updateDynamicRules({removeRuleIds, addRules})
\* with any removeRuleIds: the ids are removed first (unknown ids are
\* ignored), then the rules are added; the update is rejected as a whole,
\* changing nothing, when an added id is still installed or the limit is
\* exceeded
updateDynamicRules(installed, removeRuleIds, addRules) ==
    LET kept == Remaining(installed, removeRuleIds)
    IN  IF IdsOf(kept) \cap IdsOf(addRules) # {} \/ Len(kept) + Len(addRules) > MAX_RULES
        THEN [rejected |-> TRUE, installed |-> installed]
        ELSE [rejected |-> FALSE, installed |-> kept \o addRules]

\* how many invocations of applyBlockingRules may be in flight at once
MaxApplies == 2

Slots == 1..MaxApplies

\* a slot in which applyBlockingRules has not been invoked
NotApplying == [pc |-> "idle", blocklist |-> <<>>, rules |-> <<>>, ruleIds |-> {},
                rejected |-> FALSE, left |-> <<>>]

\* the tab at a page it has navigated to
Page(url) == [kind |-> "page", url |-> url, reason |-> <<>>, logged |-> "none",
              frameId |-> 0]

\* how many keys the storage area can hold
MaxEntries == 5

StoreKeys == 1..MaxEntries

\* no entry under the key
NoEntry == -1

\* StorageManager.set has not been invoked
NoSetCall == [pc |-> "idle", key |-> 0, quota |-> FALSE, writes |-> 0,
              evictions |-> 0, evicted |-> "none", held |-> <<>>, removed |-> {},
              retried |-> "none", result |-> FALSE]

\* no session held or stored, the clock at its start, getSession not called
NoSession == [present |-> FALSE, expires_at |-> 0]
SignedOutAtStart == [session |-> NoSession, stored |-> NoSession, now |-> 0,
                     got |-> NoSession, gotAt |-> 0, asked |-> FALSE]

\* the mutations followed in one behaviour
MaxMutations == 2
Mutators == 1..MaxMutations
NotMutating == [pc |-> "idle", op |-> "none", arg |-> <<>>, blocklist |-> <<>>,
                data |-> <<>>, success |-> FALSE]

\* the StorageManager instances of one extension
Instances == {1, 2}

\* a JavaScript value: undefined, null, or the own enumerable properties of
\* an object or of an array (its indices), in order
JsValue(kind, props) == [kind |-> kind, props |-> props]
UndefinedValue == JsValue("undefined", <<>>)
NullValue == JsValue("null", <<>>)

NoCacheEntry == [has |-> FALSE, value |-> UndefinedValue, expiry |-> 0]

\* nothing stored, nothing cached, no call made
KvAtStart == [stored |-> UndefinedValue, cache |-> [i \in Instances |-> NoCacheEntry],
              now |-> 0, wrote |-> FALSE, writer |-> 0, written |-> UndefinedValue,
              getter |-> 0, got |-> UndefinedValue]

\* AUTH_SIGN_OUT has not been sent
NotSigningOut == [pc |-> "idle", ruleIds |-> {}, success |-> FALSE]

LateIdle ==
    /\ auth = SignedOutAtStart
    /\ mutating = [p \in Mutators |-> NotMutating]
    /\ kv = KvAtStart
    /\ signingOut = NotSigningOut

BrowserIdle ==
    /\ LateIdle
    /\ applying = [p \in Slots |-> NotApplying]
    /\ tab = Page(<<>>)
    /\ navigations = <<>>
    /\ area = [k \in StoreKeys |-> NoEntry]
    /\ setCall = NoSetCall

-----------------------------------------------------------------------------
(* Background service: blocklist handlers *)

\* /^(https?:\/\/)?/ removed from the start: case-sensitive
StripScheme(s) ==
    IF startsWith(s, S_https) THEN Drop(s, Len(S_https))
    ELSE IF startsWith(s, S_http) THEN Drop(s, Len(S_http))
    ELSE s

\* /^(www\.)?/ removed from the start: case-sensitive
StripWww(s) == IF startsWith(s, S_www) THEN Drop(s, Len(S_www)) ELSE s

\* domain.replace(/^(https?:\/\/)?(www\.)?/, '').toLowerCase()
normalizeDomain(domain) == toLowerCase(StripWww(StripScheme(domain)))

Answer(op, arg, ok, msg) == [op |-> op, arg |-> arg, success |-> ok, message |-> msg]

NoResponse == Answer("none", <<>>, FALSE, "none")

\* a value handed to sendResponse, reduced to what the caller can test: null,
\* undefined, or an object with its keys and the boolean it holds under
\* 'success' (read only when 'success' is one of the keys)
JsNull == [kind |-> "null", keys |-> {}, success |-> FALSE]
JsUndefined == [kind |-> "undefined", keys |-> {}, success |-> FALSE]
JsObject(keys, success) == [kind |-> "object", keys |-> keys, success |-> success]

\* an object that has no 'success' key
Plain(keys) == JsObject(keys \ {"success"}, FALSE)

\* { success: true, ... } and { success: false, ... } with the other keys given
Succeeded(keys) == JsObject({"success"} \cup keys, TRUE)
Failure(keys) == JsObject({"success"} \cup keys, FALSE)

\* the object a blocklist or authentication handler returned: the result of
\* updateUserBlocklist or of signIn ({ success: true, data }), of signOut
\* ({ success: true }), an early { success: true, message }, or
\* { success: false, error }
ResultOf(a) ==
    IF ~a.success THEN Failure({"error"})
    ELSE IF a.message \in {"updated", "signed in"} THEN Succeeded({"data"})
    ELSE IF a.message = "signed out" THEN Succeeded({})
    ELSE Succeeded({"message"})

\* const response = await this.handleMessage(request, sender);
\* sendResponse(response)
Sent(type, result) == [type |-> type, sent |-> result]

NoReply == Sent("none", JsUndefined)

ListenerIdle == reply = NoReply

StoresIdle ==
    /\ session = FALSE
    /\ remoteRow = EmptyRow
    /\ cache = Absent
    /\ installedRules = <<>>
    /\ response = NoResponse

\* the common tail of the four mutations: updateUserBlocklist(blocklist), then
\* applyBlockingRules(updateResult.data) when it succeeded
UpdateAndApply(op, arg, cch, blocklist, netOk) ==
    LET u == updateUserBlocklist(session, remoteRow, cch, blocklist, netOk)
    IN  /\ remoteRow' = u.row
        /\ cache' = u.cache
        /\ installedRules' = IF u.success THEN applyBlockingRules(installedRules, u.data)
                             ELSE installedRules
        /\ response' = Answer(op, arg, u.success, IF u.success THEN "updated" ELSE "error")
        /\ UNCHANGED session

\* a handler that returns before it writes anything but the cache
ReturnEarly(op, arg, cch, ok, msg) ==
    /\ cache' = cch
    /\ response' = Answer(op, arg, ok, msg)
    /\ UNCHANGED <<session, remoteRow, installedRules>>

\* BackgroundService.addKeyword(keyword)
AddKeyword(keyword, net1, net2) ==
    LET g == getUserBlocklist(session, remoteRow, cache, net1)
    IN  IF ~g.success THEN ReturnEarly("addKeyword", keyword, g.cache, FALSE, "error")
        ELSE IF arrIncludes(Get(g.data, "keywords"), keyword)
        THEN ReturnEarly("addKeyword", keyword, g.cache, TRUE, "Keyword already in blocklist")
        ELSE UpdateAndApply("addKeyword", keyword, g.cache,
                 Put(g.data, "keywords", Append(Get(g.data, "keywords"), keyword)), net2)

\* BackgroundService.removeKeyword(keyword)
RemoveKeyword(keyword, net1, net2) ==
    LET g == getUserBlocklist(session, remoteRow, cache, net1)
    IN  IF ~g.success THEN ReturnEarly("removeKeyword", keyword, g.cache, FALSE, "error")
        ELSE UpdateAndApply("removeKeyword", keyword, g.cache,
                 Put(g.data, "keywords", Without(Get(g.data, "keywords"), keyword)), net2)

\* BackgroundService.addDomain(domain)
AddDomain(domain, net1, net2) ==
    LET g == getUserBlocklist(session, remoteRow, cache, net1)
        d == normalizeDomain(domain)
    IN  IF ~g.success THEN ReturnEarly("addDomain", domain, g.cache, FALSE, "error")
        ELSE IF arrIncludes(Get(g.data, "domains"), d)
        THEN ReturnEarly("addDomain", domain, g.cache, TRUE, "Domain already in blocklist")
        ELSE UpdateAndApply("addDomain", domain, g.cache,
                 Put(g.data, "domains", Append(Get(g.data, "domains"), d)), net2)

\* BackgroundService.removeDomain(domain)
RemoveDomain(domain, net1, net2) ==
    LET g == getUserBlocklist(session, remoteRow, cache, net1)
    IN  IF ~g.success THEN ReturnEarly("removeDomain", domain, g.cache, FALSE, "error")
        ELSE UpdateAndApply("removeDomain", domain, g.cache,
                 Put(g.data, "domains", Without(Get(g.data, "domains"), domain)), net2)

\* String.prototype.trim over spaces
RECURSIVE trim(_)
trim(s) ==
    IF s = <<>> THEN s
    ELSE IF s[1] = " " THEN trim(Tail(s))
    ELSE IF s[Len(s)] = " " THEN trim(SubSeq(s, 1, Len(s) - 1))
    ELSE s

\* content.split('\n').map(line => line.trim())
\*        .filter(line => line && !line.startsWith('#'))
RECURSIVE ListLines(_)
ListLines(rawLines) ==
    IF rawLines = <<>> THEN <<>>
    ELSE LET line == trim(rawLines[1])
         IN  IF line # <<>> /\ ~startsWith(line, S_hash)
             THEN <<line>> \o ListLines(Tail(rawLines))
             ELSE ListLines(Tail(rawLines))

\* new Set(blocklist.domains) with every line holding a '.' added, normalized
RECURSIVE AddLines(_, _)
AddLines(domains, lines) ==
    IF lines = <<>> THEN domains
    ELSE AddLines(IF strIncludes(lines[1], S_dot)
                  THEN Unique(Append(domains, normalizeDomain(lines[1])))
                  ELSE domains,
                  Tail(lines))

\* BackgroundService.importGithubList(url); the list fetched is rawLines
ImportGithubList(url, rawLines, net1, fetchOk, net2) ==
    LET g == getUserBlocklist(session, remoteRow, cache, net1)
    IN  IF ~strIncludes(url, S_github_com)
        THEN ReturnEarly("importGithubList", url, cache, FALSE, "Invalid GitHub URL")
        ELSE IF ~g.success
        THEN ReturnEarly("importGithubList", url, g.cache, FALSE, "error")
        ELSE IF ~fetchOk
        THEN ReturnEarly("importGithubList", url, g.cache, FALSE, "Failed to fetch GitHub list")
        ELSE LET urls == IF arrIncludes(Get(g.data, "github_urls"), url)
                         THEN Get(g.data, "github_urls")
                         ELSE Append(Get(g.data, "github_urls"), url)
                 doms == AddLines(Unique(Get(g.data, "domains")), ListLines(rawLines))
             IN  UpdateAndApply("importGithubList", url, g.cache,
                     Put(Put(g.data, "github_urls", urls), "domains", doms), net2)

\* StorageManager.set(key, value): {...value, _timestamp: Date.now()} is stored
Stored(value) == Put(value, "_timestamp", S_t1)

\* SyncService.syncBlocklist: merge the cached and the remote blocklist, push
\* the merge when local contributed, cache the merge; what it leaves in the
\* remote row and in the cache, and whether it rejected
syncBlocklist(net1, net2) ==
    LET g == getUserBlocklist(session, remoteRow, cache, net1)
        r == resolveBlocklistConflicts(cache, Present(g.data), strategy)
        u == updateUserBlocklist(session, remoteRow, g.cache, r.merged.obj, net2)
    IN  IF ~g.success \/ r.threw
        THEN [outcome |-> "rejected", row |-> remoteRow, cache |-> g.cache]
        ELSE IF ~r.hasChanges
        THEN [outcome |-> "unchanged", row |-> remoteRow, cache |-> g.cache]
        ELSE [outcome |-> "synced",
              row |-> IF r.localChanges THEN u.row ELSE remoteRow,
              cache |-> Present(Stored(r.merged.obj))]

\* one run of syncBlocklist on its own
SyncBlocklist(net1, net2) ==
    LET done == syncBlocklist(net1, net2)
    IN  /\ remoteRow' = done.row
        /\ cache' = done.cache
        /\ response' = Answer("syncBlocklist", <<>>, done.outcome # "rejected", done.outcome)
        /\ UNCHANGED <<session, installedRules>>

\* AUTH_SIGN_IN: signIn, then handleUserAuthenticated loads the blocklist and
\* applies its rules
SignIn(net1, net2) ==
    LET g == getUserBlocklist(TRUE, remoteRow, cache, net2)
    IN  IF ~net1
        THEN /\ response' = Answer("signIn", <<>>, FALSE, "error")
             /\ UNCHANGED <<session, remoteRow, cache, installedRules>>
        ELSE /\ session' = TRUE
             /\ cache' = g.cache
             /\ installedRules' = IF g.success THEN applyBlockingRules(installedRules, g.data)
                                  ELSE installedRules
             /\ response' = Answer("signIn", <<>>, TRUE, "signed in")
             /\ UNCHANGED remoteRow

\* AUTH_SIGN_OUT: signOut clears the local storage and the session, then
\* handleUserSignedOut clears the blocking rules
SignOut ==
    /\ session' = FALSE
    /\ cache' = Absent
    /\ installedRules' = <<>>
    /\ response' = Answer("signOut", <<>>, TRUE, "signed out")
    /\ UNCHANGED remoteRow

KeywordInputs == {S_News, S_news}
DomainInputs == {S_WWW_Example_COM_slash, S_example_com, S_https_www_example_com}
RemovalInputs == {S_example_com}
ListUrlInputs == {S_list_url, S_bad_list_url}
\* the hosts file served for a list URL
ListContent == <<S_comment_line, S_padded_line, S_localhost, <<>>>>

NoCheck == [valid |-> FALSE]

GateIdle == prevCheck = NoCheck /\ lastCheck = NoCheck

NotResolved == [called |-> FALSE, result |-> Thrown]

MergeIdle == local = Absent /\ remote = Absent /\ resolved = NotResolved

\* the SyncService as its constructor leaves it, online
SyncIdle ==
    /\ syncInProgress = FALSE
    /\ isOnline = TRUE
    /\ lastSyncTime = 0
    /\ lastSyncStored = 0
    /\ syncQueue = <<>>
    /\ retryCount = 0
    /\ syncInterval = FALSE
    /\ retryTimers = <<>>
    /\ debounceTimer = FALSE
    /\ cycles = 0
    /\ calls = <<>>
    /\ returned = [pc |-> "none"]
    /\ drains = <<>>
    /\ intervalTimers = 0
    /\ opsMade = <<>>
    /\ applied = {}
    /\ lastStart = "none"

InitBlock ==
    /\ StoresIdle
    /\ GateIdle
    /\ ListenerIdle
    /\ BrowserIdle
    /\ MergeIdle
    /\ SyncIdle
    /\ strategy \in Strategies

AddKeywordMsg ==
    /\ \E kw \in KeywordInputs, n1, n2 \in BOOLEAN : AddKeyword(kw, n1, n2)
    /\ reply' = Sent("BLOCKLIST_ADD_KEYWORD", ResultOf(response'))
    /\ UNCHANGED <<mergeVars, gateVars, syncVars, schedVars, browserVars>>

RemoveKeywordMsg ==
    /\ \E kw \in KeywordInputs, n1, n2 \in BOOLEAN : RemoveKeyword(kw, n1, n2)
    /\ reply' = Sent("BLOCKLIST_REMOVE_KEYWORD", ResultOf(response'))
    /\ UNCHANGED <<mergeVars, gateVars, syncVars, schedVars, browserVars>>

AddDomainMsg ==
    /\ \E d \in DomainInputs, n1, n2 \in BOOLEAN : AddDomain(d, n1, n2)
    /\ reply' = Sent("BLOCKLIST_ADD_DOMAIN", ResultOf(response'))
    /\ UNCHANGED <<mergeVars, gateVars, syncVars, schedVars, browserVars>>

RemoveDomainMsg ==
    /\ \E d \in RemovalInputs, n1, n2 \in BOOLEAN : RemoveDomain(d, n1, n2)
    /\ reply' = Sent("BLOCKLIST_REMOVE_DOMAIN", ResultOf(response'))
    /\ UNCHANGED <<mergeVars, gateVars, syncVars, schedVars, browserVars>>

ImportGithubMsg ==
    /\ \E u \in ListUrlInputs, n1, f, n2 \in BOOLEAN :
           ImportGithubList(u, ListContent, n1, f, n2)
    /\ reply' = Sent("BLOCKLIST_IMPORT_GITHUB", ResultOf(response'))
    /\ UNCHANGED <<mergeVars, gateVars, syncVars, schedVars, browserVars>>

SyncBlocklistRun ==
    /\ \E n1, n2 \in BOOLEAN : SyncBlocklist(n1, n2)
    /\ UNCHANGED <<mergeVars, gateVars, syncVars, auxVars, browserVars>>

SignInMsg ==
    /\ \E n1, n2 \in BOOLEAN : SignIn(n1, n2)
    /\ reply' = Sent("AUTH_SIGN_IN", ResultOf(response'))
    /\ UNCHANGED <<mergeVars, gateVars, syncVars, schedVars, browserVars>>

SignOutMsg ==
    /\ SignOut
    /\ reply' = Sent("AUTH_SIGN_OUT", ResultOf(response'))
    /\ UNCHANGED <<mergeVars, gateVars, syncVars, schedVars, browserVars>>

NextBlock ==
    \/ AddKeywordMsg
    \/ RemoveKeywordMsg
    \/ AddDomainMsg
    \/ RemoveDomainMsg
    \/ ImportGithubMsg
    \/ SyncBlocklistRun
    \/ SignInMsg
    \/ SignOutMsg

SpecBlock == InitBlock /\ [][NextBlock]_vars

-----------------------------------------------------------------------------
(* Inputs of the merge: blocklists as the cache and the remote table hold them *)

DomainNames == {S_x_com, S_y_com}
KeywordNames == {S_news}
GithubUrls == {S_list_url}

\* duplicate-free lists over S of at most n entries
RECURSIVE ListsOver(_, _)
ListsOver(S, n) ==
    IF n = 0 THEN {<<>>}
    ELSE LET shorter == ListsOver(S, n - 1)
         IN  shorter \cup {Append(q, e) : <<q, e>> \in
                              {p \in shorter \X S : ~arrIncludes(p[1], p[2])}}

\* a list field that may be missing from the object: <<>> or <<list>>
OptionalLists(S) == {<<>>} \cup {<<q>> : q \in ListsOver(S, MaxListLen)}

FieldOf(key, opt) == IF opt = <<>> THEN <<>> ELSE <<[k |-> key, v |-> opt[1]]>>

\* the remote row carries updated_at, a cached copy carries _timestamp
LocalStamp == <<[k |-> "_timestamp", v |-> S_t1]>>
RemoteStamp == <<[k |-> "updated_at", v |-> S_t2]>>

BlocklistObjects(stamps) ==
    {FieldOf("keywords", kw) \o FieldOf("domains", dm) \o FieldOf("github_urls", gh) \o st :
        kw \in OptionalLists(KeywordNames), dm \in OptionalLists(DomainNames),
        gh \in OptionalLists(GithubUrls), st \in stamps}

LocalInputs == {Absent} \cup {Present(o) : o \in BlocklistObjects({<<>>, LocalStamp})}
RemoteInputs == {Absent} \cup {Present(o) : o \in BlocklistObjects({<<>>, RemoteStamp})}

InitMerge ==
    /\ local \in LocalInputs
    /\ remote \in RemoteInputs
    /\ strategy \in Strategies
    /\ resolved = NotResolved
    /\ StoresIdle
    /\ GateIdle
    /\ ListenerIdle
    /\ BrowserIdle
    /\ SyncIdle

\* one call of resolveBlocklistConflicts(local, remote)
Resolve ==
    /\ ~resolved.called
    /\ resolved' = [called |-> TRUE,
                    result |-> resolveBlocklistConflicts(local, remote, strategy)]
    /\ UNCHANGED <<local, remote, strategy>>
    /\ UNCHANGED <<storeVars, gateVars, syncVars, auxVars, browserVars>>

NextMerge == Resolve

SpecMerge == InitMerge /\ [][NextMerge]_vars

-----------------------------------------------------------------------------
(* Rule compilation on BLOCKLIST_UPDATE *)

DigitChars == <<"0", "1", "2", "3", "4", "5", "6", "7", "8", "9">>

\* String(n)
RECURSIVE Digits(_)
Digits(n) ==
    IF n < 10 THEN <<DigitChars[n + 1]>>
    ELSE Digits(n \div 10) \o <<DigitChars[(n % 10) + 1]>>

\* "d<n>.com"
NumberedDomain(n) == <<"d">> \o Digits(n) \o <<".", "c", "o", "m">>

\* the domains d<first>.com .. d<last>.com
RECURSIVE NumberedDomains(_, _)
NumberedDomains(first, last) ==
    IF first > last THEN <<>>
    ELSE IF first = last THEN <<NumberedDomain(first)>>
    ELSE NumberedDomains(first, (first + last) \div 2)
             \o NumberedDomains((first + last) \div 2 + 1, last)

\* a blocklist of exactly MAX_RULES domains and one of MAX_RULES + 1
AtLimitDomains == NumberedDomains(1, MAX_RULES)
OverLimitDomains == NumberedDomains(1, MAX_RULES + 1)

UpdatePayload(keywords, domains) ==
    <<[k |-> "keywords", v |-> keywords], [k |-> "domains", v |-> domains]>>

PayloadDomainNames == {S_x_com, S_y_com}

\* the payloads of BLOCKLIST_UPDATE
UpdatePayloads ==
    {UpdatePayload(kw, dm) : kw \in {<<>>, <<S_news>>},
                             dm \in ListsOver(PayloadDomainNames, MaxListLen)}
        \cup {UpdatePayload(<<S_news>>, AtLimitDomains),
              UpdatePayload(<<>>, OverLimitDomains)}

\* handleMessage, case 'BLOCKLIST_UPDATE'
UpdateBlocklist(payload, netOk) ==
    UpdateAndApply("updateBlocklist", <<>>, cache, payload, netOk)

\* a signed-in user whose empty row has been loaded
InitRules ==
    /\ session = TRUE
    /\ remoteRow = EmptyRow
    /\ cache = Present(EmptyRow)
    /\ installedRules = <<>>
    /\ response = NoResponse
    /\ GateIdle
    /\ ListenerIdle
    /\ BrowserIdle
    /\ MergeIdle
    /\ strategy = "server_wins"
    /\ SyncIdle

UpdateBlocklistMsg ==
    /\ \E payload \in UpdatePayloads, netOk \in BOOLEAN : UpdateBlocklist(payload, netOk)
    /\ reply' = Sent("BLOCKLIST_UPDATE", ResultOf(response'))
    /\ UNCHANGED <<mergeVars, gateVars, syncVars, schedVars, browserVars>>

NextRules ==
    \/ UpdateBlocklistMsg
    \/ SignInMsg
    \/ SignOutMsg

SpecRules == InitRules /\ [][NextRules]_vars

-----------------------------------------------------------------------------
(* Blocklist mutations of a user whose lists are at the free-tier limits *)

\* CONFIG.SUBSCRIPTION.FREE
KEYWORD_LIMIT == 15
DOMAIN_LIMIT == 20

\* "k<n>"
NumberedKeyword(n) == <<"k">> \o Digits(n)

\* the row with the keywords k1..k<n> and the domains d1.com..d<m>.com
RowOf(n, m) ==
    Put(Put(EmptyRow, "keywords", [i \in 1..n |-> NumberedKeyword(i)]),
        "domains", NumberedDomains(1, m))

\* a BLOCKLIST_UPDATE payload with one keyword and one domain more than the
\* limits, and one within them
LimitPayloads ==
    {UpdatePayload([i \in 1..(KEYWORD_LIMIT + 1) |-> NumberedKeyword(i)],
                   NumberedDomains(1, DOMAIN_LIMIT + 1)),
     UpdatePayload(<<S_news>>, <<S_x_com>>)}

\* a signed-in user whose lists are at the limits or one entry below them
InitLimits ==
    /\ session = TRUE
    /\ \E n \in {KEYWORD_LIMIT - 1, KEYWORD_LIMIT}, m \in {DOMAIN_LIMIT - 1, DOMAIN_LIMIT} :
          /\ remoteRow = RowOf(n, m)
          /\ cache = Present(RowOf(n, m))
          /\ installedRules = applyBlockingRules(<<>>, RowOf(n, m))
    /\ response = NoResponse
    /\ GateIdle
    /\ ListenerIdle
    /\ BrowserIdle
    /\ MergeIdle
    /\ strategy = "server_wins"
    /\ SyncIdle

\* handleMessage, case 'BLOCKLIST_UPDATE', with the payloads above
UpdateAtLimitMsg ==
    /\ \E payload \in LimitPayloads, netOk \in BOOLEAN : UpdateBlocklist(payload, netOk)
    /\ reply' = Sent("BLOCKLIST_UPDATE", ResultOf(response'))
    /\ UNCHANGED <<mergeVars, gateVars, syncVars, schedVars, browserVars>>

NextLimits ==
    \/ AddKeywordMsg
    \/ AddDomainMsg
    \/ ImportGithubMsg
    \/ UpdateAtLimitMsg

SpecLimits == InitLimits /\ [][NextLimits]_vars

-----------------------------------------------------------------------------
(* URL Blocking Gate *)

\* new URL(url) accepts an absolute URL only; of the inputs here those are the
\* ones that start with http:// or https:// in any letter case
SchemeLength(url) ==
    IF startsWith(toLowerCase(url), S_https) THEN Len(S_https)
    ELSE IF startsWith(toLowerCase(url), S_http) THEN Len(S_http)
    ELSE 0

HostEnd == {"/", "?", "#", ":"}

RECURSIVE UpToHostEnd(_)
UpToHostEnd(s) ==
    IF s = <<>> \/ s[1] \in HostEnd THEN <<>>
    ELSE <<s[1]>> \o UpToHostEnd(Tail(s))

\* new URL(url).hostname: the host between the scheme and the first of
\* / ? # :, in lower case
hostname(url) == toLowerCase(UpToHostEnd(Drop(url, SchemeLength(url))))

\* new URL(url) throws a TypeError
UrlThrows(url) == SchemeLength(url) = 0 \/ hostname(url) = <<>>

NullDecision == [blocked |-> FALSE, type |-> "none", source |-> <<>>, reason |-> <<>>]

DomainDecision(domain) ==
    [blocked |-> TRUE, type |-> "domain", source |-> domain,
     reason |-> S_domain_reason_pre \o domain \o S_domain_reason_post]

KeywordDecision(keyword) ==
    [blocked |-> TRUE, type |-> "keyword", source |-> keyword,
     reason |-> S_keyword_reason_pre \o keyword \o S_quote]

\* for (const keyword of blocklist.keywords)
\*     if (urlLower.includes(keyword.toLowerCase())) return {...}
RECURSIVE KeywordLoop(_, _)
KeywordLoop(urlLower, keywords) ==
    IF keywords = <<>> THEN NullDecision
    ELSE IF strIncludes(urlLower, toLowerCase(keywords[1])) THEN KeywordDecision(keywords[1])
    ELSE KeywordLoop(urlLower, Tail(keywords))

\* urlObj.hostname.replace(/^www\./, '').toLowerCase()
CheckedDomain(url) == toLowerCase(StripWww(hostname(url)))

\* BackgroundService.checkUrlBlocked(url), blocklistResult being the answer
\* of getUserBlocklist
checkUrlBlocked(url, blocklistResult) ==
    IF ~blocklistResult.success THEN NullDecision
    ELSE IF UrlThrows(url) THEN NullDecision
    ELSE IF arrIncludes(Get(blocklistResult.data, "domains"), CheckedDomain(url))
    THEN DomainDecision(CheckedDomain(url))
    ELSE KeywordLoop(toLowerCase(url), Get(blocklistResult.data, "keywords"))

\* a navigation to url reaches the gate; the blocklist request succeeds or fails
CheckUrl(url, netOk) ==
    LET g == getUserBlocklist(session, remoteRow, cache, netOk)
    IN  /\ cache' = g.cache
        /\ prevCheck' = lastCheck
        /\ lastCheck' = [valid |-> TRUE, url |-> url, signedIn |-> session,
                         row |-> remoteRow, cached |-> cache,
                         obtained |-> g.success, blocklist |-> g.data,
                         decision |-> checkUrlBlocked(url, g)]
        /\ UNCHANGED <<session, remoteRow, installedRules, response>>

GateDomains == {S_blocked_com, S_example_com}
GateKeywords == {S_news, S_News}
GateUrls == {S_url_sub, S_url_exact, S_url_www, S_url_keyword, S_url_clean,
             S_url_invalid, S_url_notblocked}

\* the remote rows the gate is run against
GateRows ==
    {Put(Put(EmptyRow, "keywords", kw), "domains", dm) :
        kw \in ListsOver(GateKeywords, MaxListLen), dm \in ListsOver(GateDomains, MaxListLen)}

\* signed out with nothing cached, or signed in with the row cached or not
\* (the load that follows sign-in failed)
InitGate ==
    /\ remoteRow \in GateRows
    /\ session \in BOOLEAN
    /\ cache \in IF session THEN {Absent, Present(remoteRow)} ELSE {Absent}
    /\ installedRules = IF cache.present THEN applyBlockingRules(<<>>, remoteRow) ELSE <<>>
    /\ response = NoResponse
    /\ GateIdle
    /\ ListenerIdle
    /\ BrowserIdle
    /\ MergeIdle
    /\ strategy = "server_wins"
    /\ SyncIdle

Navigate ==
    /\ \E url \in GateUrls, netOk \in BOOLEAN : CheckUrl(url, netOk)
    /\ UNCHANGED <<mergeVars, syncVars, auxVars, browserVars>>

NextGate == Navigate

SpecGate == InitGate /\ [][NextGate]_vars

-----------------------------------------------------------------------------
(* Sync Scheduler *)

\* CONFIG.SYNC.RETRY_ATTEMPTS, copied to this.maxRetries by the constructor
RETRY_ATTEMPTS == 3

\* CONFIG.SYNC.RETRY_DELAY, in milliseconds
RETRY_DELAY == 1000

SubSyncs == {"blocklist", "stats", "settings", "devices"}

NotLaunched == [n \in SubSyncs |-> "idle"]

\* the array handed to Promise.allSettled: the four sub-syncs, all started
Launched == [n \in SubSyncs |-> "running"]

\* an invocation that passed the two first checks of syncNow and awaits
\* supabaseClient.getCurrentUser()
AwaitingUser(id, over) ==
    [id |-> id, pc |-> "auth", overlapped |-> over, errors |-> 0,
     drained |-> FALSE, fetched |-> TRUE, subs |-> NotLaunched]

\* what an invocation returned, with what it had done by then; stamped: is
\* this.lastSyncTime the time this invocation set
Outcome(over, msg, errors, drained, fetched, subs, stamped) ==
    [pc |-> "done", overlapped |-> over, result |-> msg, errors |-> errors,
     drained |-> drained, fetched |-> fetched, stamped |-> stamped,
     launched |-> subs # NotLaunched,
     settled |-> Cardinality({n \in SubSyncs : subs[n] \in {"fulfilled", "rejected"}}),
     rejected |-> Cardinality({n \in SubSyncs : subs[n] = "rejected"})]

\* an invocation of syncNow that returned from one of its two first checks
ReturnedAtOnce(over, msg) == Outcome(over, msg, 0, FALSE, FALSE, NotLaunched, FALSE)

\* a guard that lets every invocation through
AlreadyInProgress_Never == FALSE

\* if (this.syncInProgress)
AlreadyInProgress == syncInProgress

\* a syncNow() that never finds the device offline
Offline_Never == FALSE

\* if (!this.isOnline)
Offline == ~isOnline

\* syncNow() up to its first await; a cycle that starts is numbered, and
\* limit cycles are followed at most
syncNowWithin(limit) ==
    IF AlreadyInProgress
    THEN /\ returned' = ReturnedAtOnce(calls # <<>>, "Sync already in progress")
         /\ UNCHANGED <<calls, syncInProgress, cycles>>
    ELSE IF Offline
    THEN /\ returned' = ReturnedAtOnce(calls # <<>>, "Offline")
         /\ UNCHANGED <<calls, syncInProgress, cycles>>
    ELSE /\ cycles < limit
         /\ cycles' = cycles + 1
         /\ calls' = Append(calls, AwaitingUser(cycles + 1, calls # <<>>))
         /\ syncInProgress' = TRUE
         /\ UNCHANGED returned

syncNow == syncNowWithin(MaxCycles)

\* processSyncQueue() up to its first await: nothing when the queue is empty
\* or the device is offline, else the queue is copied and emptied
processSyncQueue(owner, online) ==
    IF syncQueue = <<>> \/ ~online
    THEN UNCHANGED <<syncQueue, drains>>
    ELSE /\ syncQueue' = <<>>
         /\ drains' = Append(drains, [owner |-> owner, batch |-> syncQueue, next |-> 1])

RemoveAt(seq, i) == SubSeq(seq, 1, i - 1) \o SubSeq(seq, i + 1, Len(seq))

\* a return that skips the finally block
Return_FlagKept(c, msg) ==
    /\ returned' = Outcome(calls[c].overlapped, msg, calls[c].errors,
                            calls[c].drained, calls[c].fetched, calls[c].subs,
                            lastSyncTime = calls[c].id)
    /\ calls' = RemoveAt(calls, c)
    /\ UNCHANGED syncInProgress

\* return in the try block or the catch block, then finally
Return(c, msg) ==
    /\ returned' = Outcome(calls[c].overlapped, msg, calls[c].errors,
                            calls[c].drained, calls[c].fetched, calls[c].subs,
                            lastSyncTime = calls[c].id)
    /\ calls' = RemoveAt(calls, c)
    /\ syncInProgress' = FALSE

\* a start() that never finds the scheduler running
Running_Never == FALSE

\* if (this.syncInterval)
Running == syncInterval

\* start(): logs and returns when the scheduler runs already, else calls
\* syncNow() and sets the interval timer
Start ==
    /\ IF Running
       THEN /\ lastStart' = "already running"
            /\ UNCHANGED <<syncInterval, intervalTimers, syncInProgress, calls,
                           cycles, returned>>
       ELSE /\ syncNow
            /\ syncInterval' = TRUE
            /\ intervalTimers' = intervalTimers + 1
            /\ lastStart' = "started"
    /\ UNCHANGED <<isOnline, lastSyncTime, lastSyncStored, syncQueue, retryCount,
                   retryTimers, debounceTimer, drains>>
    /\ UNCHANGED <<mergeVars, storeVars, gateVars, reply, opsMade, applied, browserVars>>

\* stop(): clears the timer this.syncInterval refers to
Stop ==
    /\ syncInterval
    /\ syncInterval' = FALSE
    /\ intervalTimers' = intervalTimers - 1
    /\ lastStart' = "none"
    /\ UNCHANGED <<syncInProgress, isOnline, lastSyncTime, lastSyncStored, syncQueue,
                   retryCount, retryTimers, debounceTimer, calls, drains>>
    /\ UNCHANGED <<cycles, returned>>
    /\ UNCHANGED <<mergeVars, storeVars, gateVars, reply, opsMade, applied, browserVars>>

\* the setInterval callback of start()
IntervalTick ==
    /\ intervalTimers > 0
    /\ syncNow
    /\ UNCHANGED <<isOnline, lastSyncTime, lastSyncStored, syncQueue, retryCount,
                   syncInterval, retryTimers, debounceTimer, drains>>
    /\ UNCHANGED <<mergeVars, storeVars, gateVars, auxVars, browserVars>>

\* the setTimeout callback scheduled by the catch block
RetryFire ==
    /\ \E t \in 1..Len(retryTimers) : retryTimers' = RemoveAt(retryTimers, t)
    /\ syncNow
    /\ UNCHANGED <<isOnline, lastSyncTime, lastSyncStored, syncQueue, retryCount,
                   syncInterval, debounceTimer, drains>>
    /\ UNCHANGED <<mergeVars, storeVars, gateVars, auxVars, browserVars>>

\* syncNow() called from outside the service (the SYNC_NOW message)
ManualSync ==
    /\ syncNow
    /\ UNCHANGED <<isOnline, lastSyncTime, lastSyncStored, syncQueue, retryCount,
                   syncInterval, retryTimers, debounceTimer, drains>>
    /\ UNCHANGED <<mergeVars, storeVars, gateVars, auxVars, browserVars>>

\* a cycle that starts its sub-syncs without awaiting processSyncQueue()
AwaitingDrain_NotAwaited(call) ==
    [call EXCEPT !.drained = TRUE, !.pc = "subs", !.subs = Launched]

\* await this.processSyncQueue(): the cycle waits for the drain it started
AwaitingDrain(call) == [call EXCEPT !.drained = TRUE, !.pc = "drain"]

\* getCurrentUser() resolved to a user: await this.processSyncQueue(), and when
\* that returns at once the four sub-syncs are started
AuthUser ==
    /\ \E c \in 1..Len(calls) :
           /\ calls[c].pc = "auth"
           /\ session
           /\ processSyncQueue(calls[c].id, isOnline)
           /\ calls' = IF syncQueue = <<>> \/ ~isOnline
                       THEN [calls EXCEPT ![c].drained = TRUE, ![c].pc = "subs",
                                          ![c].subs = Launched]
                       ELSE [calls EXCEPT ![c] = AwaitingDrain(calls[c])]
    /\ UNCHANGED <<syncInProgress, isOnline, lastSyncTime, lastSyncStored, retryCount,
                   syncInterval, retryTimers, debounceTimer>>
    /\ UNCHANGED <<cycles, returned>>
    /\ UNCHANGED <<mergeVars, storeVars, gateVars, auxVars, browserVars>>

\* a missing user that is thrown into the catch block
NoUser_Thrown(c) ==
    /\ Return(c, "Not authenticated")
    /\ retryCount' = retryCount + 1
    /\ retryTimers' = Append(retryTimers, RETRY_DELAY)

\* if (!user) return {success: false, message: 'Not authenticated'}: the
\* catch block is passed by, finally runs
NoUser(c) ==
    /\ Return(c, "Not authenticated")
    /\ UNCHANGED <<retryCount, retryTimers>>

\* getCurrentUser() resolved to null
AuthNull ==
    /\ \E c \in 1..Len(calls) :
           /\ calls[c].pc = "auth"
           /\ NoUser(c)
    /\ UNCHANGED <<isOnline, lastSyncTime, lastSyncStored, syncQueue,
                   syncInterval, debounceTimer, drains>>
    /\ UNCHANGED cycles
    /\ UNCHANGED <<mergeVars, storeVars, gateVars, auxVars, browserVars>>

\* CONFIG.SYNC.RETRY_DELAY * Math.pow(2, this.retryCount - 1)
RetryDelay(count) == RETRY_DELAY * 2 ^ (count - 1)

\* the awaited call rejected: the catch block counts the failure and
\* schedules a retry while retryCount < maxRetries
AuthRejects ==
    /\ \E c \in 1..Len(calls) :
           /\ calls[c].pc = "auth"
           /\ Return(c, "error")
    /\ retryCount' = retryCount + 1
    /\ retryTimers' = IF retryCount + 1 < RETRY_ATTEMPTS
                      THEN Append(retryTimers, RetryDelay(retryCount + 1))
                      ELSE retryTimers
    /\ UNCHANGED <<isOnline, lastSyncTime, lastSyncStored, syncQueue,
                   syncInterval, debounceTimer, drains>>
    /\ UNCHANGED cycles
    /\ UNCHANGED <<mergeVars, storeVars, gateVars, auxVars, browserVars>>

\* processSyncQueue returned to the cycle that awaited it, if any: the cycle
\* starts its four sub-syncs
AfterDrain(d) ==
    [c \in 1..Len(calls) |->
        IF calls[c].id = d.owner
        THEN [calls[c] EXCEPT !.pc = "subs", !.subs = Launched]
        ELSE calls[c]]

\* one turn of the for loop of processSyncQueue has been done by drain i
LoopOn(i) ==
    IF drains[i].next = Len(drains[i].batch)
    THEN /\ drains' = RemoveAt(drains, i)
         /\ calls' = AfterDrain(drains[i])
    ELSE /\ drains' = [drains EXCEPT ![i].next = @ + 1]
         /\ UNCHANGED calls

\* processSyncOperation, case SETTINGS: auth.updateUser resolves
DrainSettingsOp ==
    /\ \E i \in 1..Len(drains) :
           /\ drains[i].batch[drains[i].next].key = "fokus_settings"
           /\ LoopOn(i)
    /\ UNCHANGED <<syncInProgress, isOnline, lastSyncTime, lastSyncStored, syncQueue,
                   retryCount, syncInterval, retryTimers, debounceTimer>>
    /\ UNCHANGED <<cycles, returned>>
    /\ UNCHANGED <<mergeVars, storeVars, gateVars, auxVars, browserVars>>

\* processSyncOperation, case SETTINGS: auth.updateUser rejects, the catch
\* block of processSyncQueue puts the whole batch back at the front
DrainSettingsOpThrows ==
    /\ \E i \in 1..Len(drains) :
           /\ drains[i].batch[drains[i].next].key = "fokus_settings"
           /\ syncQueue' = drains[i].batch \o syncQueue
           /\ drains' = RemoveAt(drains, i)
           /\ calls' = AfterDrain(drains[i])
    /\ UNCHANGED <<syncInProgress, isOnline, lastSyncTime, lastSyncStored,
                   retryCount, syncInterval, retryTimers, debounceTimer>>
    /\ UNCHANGED <<cycles, returned>>
    /\ UNCHANGED <<mergeVars, storeVars, gateVars, auxVars, browserVars>>

\* syncBlocklist() of a cycle settles
SettleBlocklist ==
    /\ \E c \in 1..Len(calls), n1, n2 \in BOOLEAN :
           /\ calls[c].pc = "subs"
           /\ calls[c].subs["blocklist"] = "running"
           /\ LET done == syncBlocklist(n1, n2)
              IN  /\ remoteRow' = done.row
                  /\ cache' = done.cache
                  /\ calls' = [calls EXCEPT ![c].subs["blocklist"] =
                                  IF done.outcome = "rejected" THEN "rejected"
                                  ELSE "fulfilled"]
    /\ UNCHANGED <<syncInProgress, isOnline, lastSyncTime, lastSyncStored, syncQueue,
                   retryCount, syncInterval, retryTimers, debounceTimer, drains>>
    /\ UNCHANGED <<cycles, returned>>
    /\ UNCHANGED <<mergeVars, gateVars, auxVars, session, installedRules, response, browserVars>>

\* syncStats(), syncSettings() or syncDevices() of a cycle settles: each
\* rethrows what its requests throw
SettleOther ==
    /\ \E c \in 1..Len(calls), n \in SubSyncs \ {"blocklist"}, ok \in BOOLEAN :
           /\ calls[c].pc = "subs"
           /\ calls[c].subs[n] = "running"
           /\ calls' = [calls EXCEPT ![c].subs[n] =
                           IF ok THEN "fulfilled" ELSE "rejected"]
    /\ UNCHANGED <<syncInProgress, isOnline, lastSyncTime, lastSyncStored, syncQueue,
                   retryCount, syncInterval, retryTimers, debounceTimer, drains>>
    /\ UNCHANGED <<cycles, returned>>
    /\ UNCHANGED <<mergeVars, storeVars, gateVars, auxVars, browserVars>>

\* the promise of allSettled resolves as soon as any sub-sync has rejected
SubSyncsSettled_FirstRejection(subs) ==
    \/ \A n \in SubSyncs : subs[n] = "fulfilled"
    \/ \E n \in SubSyncs : subs[n] = "rejected"

\* await Promise.allSettled([...]): resolves when all four have settled
SubSyncsSettled(subs) == \A n \in SubSyncs : subs[n] \in {"fulfilled", "rejected"}

\* results.filter(r => r.status === 'rejected').length
RejectedCount(subs) == Cardinality({n \in SubSyncs : subs[n] = "rejected"})

\* allSettled resolved: the errors are counted, this.lastSyncTime is set and
\* storage.set('last_sync_time') is awaited
CycleStamp ==
    /\ \E c \in 1..Len(calls) :
           /\ calls[c].pc = "subs"
           /\ SubSyncsSettled(calls[c].subs)
           /\ lastSyncTime' = calls[c].id
           /\ calls' = [calls EXCEPT ![c].pc = "store",
                                     ![c].errors = RejectedCount(calls[c].subs)]
    /\ UNCHANGED <<syncInProgress, isOnline, lastSyncStored, syncQueue, retryCount,
                   syncInterval, retryTimers, debounceTimer, drains>>
    /\ UNCHANGED <<cycles, returned>>
    /\ UNCHANGED <<mergeVars, storeVars, gateVars, auxVars, browserVars>>

\* storage.set('last_sync_time') answered: retryCount is reset and the cycle
\* returns success
CycleFinish ==
    /\ \E c \in 1..Len(calls) :
           /\ calls[c].pc = "store"
           /\ lastSyncStored' = calls[c].id
           /\ Return(c, "success")
    /\ retryCount' = 0
    /\ UNCHANGED <<isOnline, lastSyncTime, syncQueue,
                   syncInterval, retryTimers, debounceTimer, drains>>
    /\ UNCHANGED cycles
    /\ UNCHANGED <<mergeVars, storeVars, gateVars, auxVars, browserVars>>

\* the 'online' event
GoOnline ==
    /\ ~isOnline
    /\ isOnline' = TRUE
    /\ processSyncQueue(0, TRUE)
    /\ UNCHANGED <<syncInProgress, lastSyncTime, lastSyncStored, retryCount,
                   syncInterval, retryTimers, debounceTimer, calls>>
    /\ UNCHANGED <<cycles, returned>>
    /\ UNCHANGED <<mergeVars, storeVars, gateVars, auxVars, browserVars>>

\* the 'offline' event
GoOffline ==
    /\ isOnline
    /\ isOnline' = FALSE
    /\ UNCHANGED <<syncInProgress, lastSyncTime, lastSyncStored, syncQueue, retryCount,
                   syncInterval, retryTimers, debounceTimer, calls, drains>>
    /\ UNCHANGED <<cycles, returned>>
    /\ UNCHANGED <<mergeVars, storeVars, gateVars, auxVars, browserVars>>

\* shouldSyncKey: the blocklist and the settings keys are synced
SyncKeys == {"fokus_blocklist", "fokus_settings"}

shouldSyncKey(key) == key \in SyncKeys

\* the keys the storage-change events of this specification report
ChangedKeys == {"fokus_settings", "fokus_stats"}

\* the operations held by the drains in flight
RECURSIVE Held(_)
Held(ds) == IF ds = <<>> THEN 0 ELSE Len(ds[1].batch) + Held(Tail(ds))

\* chrome.storage.onChanged: handleStorageChange, and queueSync for a synced key
StorageChange ==
    /\ Len(syncQueue) + Held(drains) < MaxPending
    /\ \E key \in ChangedKeys :
           IF shouldSyncKey(key)
           THEN /\ syncQueue' = Append(syncQueue, [key |-> key])
                /\ debounceTimer' = TRUE
           ELSE UNCHANGED <<syncQueue, debounceTimer>>
    /\ UNCHANGED <<syncInProgress, isOnline, lastSyncTime, lastSyncStored, retryCount,
                   syncInterval, retryTimers, calls, drains>>
    /\ UNCHANGED <<cycles, returned>>
    /\ UNCHANGED <<mergeVars, storeVars, gateVars, auxVars, browserVars>>

\* the debounce timeout of queueSync fires
DebounceFire ==
    /\ debounceTimer
    /\ debounceTimer' = FALSE
    /\ processSyncQueue(0, isOnline)
    /\ UNCHANGED <<syncInProgress, isOnline, lastSyncTime, lastSyncStored, retryCount,
                   syncInterval, retryTimers, calls>>
    /\ UNCHANGED <<cycles, returned>>
    /\ UNCHANGED <<mergeVars, storeVars, gateVars, auxVars, browserVars>>

\* a signed-in user, nothing cached yet, the service just constructed
InitSync ==
    /\ SyncIdle
    /\ session = TRUE
    /\ remoteRow = EmptyRow
    /\ cache = Absent
    /\ installedRules = <<>>
    /\ response = NoResponse
    /\ GateIdle
    /\ ListenerIdle
    /\ BrowserIdle
    /\ MergeIdle
    /\ strategy = "server_wins"

NextSync ==
    \/ Start
    \/ Stop
    \/ IntervalTick
    \/ RetryFire
    \/ ManualSync
    \/ AuthUser
    \/ AuthNull
    \/ AuthRejects
    \/ DrainSettingsOp
    \/ DrainSettingsOpThrows
    \/ SettleBlocklist
    \/ SettleOther
    \/ CycleStamp
    \/ CycleFinish
    \/ GoOnline
    \/ GoOffline
    \/ StorageChange
    \/ DebounceFire

SpecSync == InitSync /\ [][NextSync]_vars

-----------------------------------------------------------------------------
(* The scheduler left to itself: start, stop and the timers, no outside call *)

\* the actions of the scheduler without syncNow() called from outside: a
\* cycle starts from start(), the interval timer or a retry timer only
NextStop ==
    \/ Start
    \/ Stop
    \/ IntervalTick
    \/ RetryFire
    \/ AuthUser
    \/ AuthNull
    \/ AuthRejects
    \/ DrainSettingsOp
    \/ DrainSettingsOpThrows
    \/ SettleBlocklist
    \/ SettleOther
    \/ CycleStamp
    \/ CycleFinish
    \/ GoOnline
    \/ GoOffline
    \/ StorageChange
    \/ DebounceFire

SpecStop == InitSync /\ [][NextStop]_vars

-----------------------------------------------------------------------------
(* Manual recovery: SyncService.reset and SyncService.getStatus *)

\* getStatus(): lastSyncTime is storage['last_sync_time'] || this.lastSyncTime
getStatus ==
    [isRunning |-> syncInterval,
     isSyncing |-> syncInProgress,
     lastSyncTime |-> IF lastSyncStored # 0 THEN lastSyncStored ELSE lastSyncTime,
     isOnline |-> isOnline,
     pendingOperations |-> Len(syncQueue),
     retryCount |-> retryCount]

\* reset(): stop(), the queue and retryCount cleared, 'last_sync_time' removed
\* from the storage, start(); the two removals are taken to resolve before
\* anything else runs
Reset ==
    /\ syncQueue' = <<>>
    /\ retryCount' = 0
    /\ lastSyncStored' = 0
    /\ syncNow
    /\ syncInterval' = TRUE
    /\ intervalTimers' = IF syncInterval THEN intervalTimers ELSE intervalTimers + 1
    /\ lastStart' = "started by reset"
    /\ UNCHANGED <<isOnline, lastSyncTime, retryTimers, debounceTimer, drains>>
    /\ UNCHANGED <<mergeVars, storeVars, gateVars, reply, opsMade, applied, browserVars>>

NextLife ==
    \/ Start
    \/ Stop
    \/ Reset
    \/ IntervalTick
    \/ RetryFire
    \/ ManualSync
    \/ AuthUser
    \/ AuthNull
    \/ AuthRejects
    \/ DrainSettingsOp
    \/ DrainSettingsOpThrows
    \/ SettleBlocklist
    \/ SettleOther
    \/ CycleStamp
    \/ CycleFinish
    \/ GoOnline
    \/ GoOffline
    \/ StorageChange
    \/ DebounceFire

SpecLife == InitSync /\ [][NextLife]_vars

-----------------------------------------------------------------------------
(* Retry backoff: cycles that fail one after another *)

\* the cycles followed when failures are counted
MaxAttempts == 4

\* the setInterval callback, MaxAttempts cycles being followed
TimerAttempt ==
    /\ intervalTimers > 0
    /\ syncNowWithin(MaxAttempts)
    /\ UNCHANGED <<isOnline, lastSyncTime, lastSyncStored, syncQueue, retryCount,
                   syncInterval, retryTimers, debounceTimer, drains>>
    /\ UNCHANGED <<mergeVars, storeVars, gateVars, auxVars, browserVars>>

\* the setTimeout callback of the catch block, MaxAttempts cycles being followed
RetryAttempt ==
    /\ \E t \in 1..Len(retryTimers) : retryTimers' = RemoveAt(retryTimers, t)
    /\ syncNowWithin(MaxAttempts)
    /\ UNCHANGED <<isOnline, lastSyncTime, lastSyncStored, syncQueue, retryCount,
                   syncInterval, debounceTimer, drains>>
    /\ UNCHANGED <<mergeVars, storeVars, gateVars, auxVars, browserVars>>

\* syncNow() called from outside, MaxAttempts cycles being followed
ManualAttempt ==
    /\ syncNowWithin(MaxAttempts)
    /\ UNCHANGED <<isOnline, lastSyncTime, lastSyncStored, syncQueue, retryCount,
                   syncInterval, retryTimers, debounceTimer, drains>>
    /\ UNCHANGED <<mergeVars, storeVars, gateVars, auxVars, browserVars>>

NextRetry ==
    \/ Start
    \/ TimerAttempt
    \/ RetryAttempt
    \/ ManualAttempt
    \/ AuthUser
    \/ AuthNull
    \/ AuthRejects
    \/ SettleBlocklist
    \/ SettleOther
    \/ CycleStamp
    \/ CycleFinish

SpecRetry == InitSync /\ [][NextRetry]_vars

-----------------------------------------------------------------------------
(* One sync cycle from its start to its end, the pending queue included *)

\* the cycles started from outside and by retry timers, every awaited call of
\* a cycle resolving or rejecting, storage changes filling the queue
NextCycle ==
    \/ ManualSync
    \/ RetryFire
    \/ AuthUser
    \/ AuthNull
    \/ AuthRejects
    \/ DrainSettingsOp
    \/ DrainSettingsOpThrows
    \/ SettleBlocklist
    \/ SettleOther
    \/ CycleStamp
    \/ CycleFinish
    \/ StorageChange
    \/ DebounceFire

SpecCycle == InitSync /\ [][NextCycle]_vars

\* the drain that moves in this step is one a cycle awaits
DrainOfCycleMoves ==
    \E i \in 1..Len(drains) :
        /\ drains[i].owner # 0
        /\ drains' \in {RemoveAt(drains, i), [drains EXCEPT ![i].next = @ + 1]}

\* every awaited storage or network call eventually resolves or rejects
AwaitedCallsSettle ==
    /\ WF_vars(AuthUser \/ AuthNull \/ AuthRejects)
    /\ WF_vars((DrainSettingsOp \/ DrainSettingsOpThrows) /\ DrainOfCycleMoves)
    /\ WF_vars(SettleBlocklist)
    /\ WF_vars(SettleOther)
    /\ WF_vars(CycleStamp)
    /\ WF_vars(CycleFinish)

SpecCycleFair == SpecCycle /\ AwaitedCallsSettle

-----------------------------------------------------------------------------
(* Pending queue: operations told apart, replayed against the remote store *)

\* the operations queued in one run
MaxOps == 3

\* the blocklist a queued operation carries as newValue
QueuedBlocklist(id) == Put(EmptyRow, "domains", <<NumberedDomain(id)>>)

\* handleStorageChange for a synced key, then queueSync(operation): the
\* operation is pushed and the debounce timeout is set anew; id stands for
\* the operation's timestamp
QueueSync ==
    /\ Len(opsMade) < MaxOps
    /\ \E key \in SyncKeys :
           /\ syncQueue' = Append(syncQueue,
                  [key |-> key, id |-> Len(opsMade) + 1,
                   newValue |-> IF key = "fokus_blocklist"
                                THEN QueuedBlocklist(Len(opsMade) + 1)
                                ELSE <<>>])
           /\ opsMade' = Append(opsMade, key)
    /\ debounceTimer' = TRUE
    /\ UNCHANGED <<syncInProgress, isOnline, lastSyncTime, lastSyncStored, retryCount,
                   syncInterval, retryTimers, calls, drains>>
    /\ UNCHANGED <<cycles, returned>>
    /\ UNCHANGED <<mergeVars, storeVars, gateVars, reply, intervalTimers, applied,
                   lastStart, browserVars>>

\* the operation the for loop of drain i has reached
Reached(i) == drains[i].batch[drains[i].next]

\* processSyncOperation, case BLOCKLIST: updateUserBlocklist(operation.newValue)
\* answers success or failure and never throws; its answer is not read
ReplayBlocklistOp ==
    /\ \E i \in 1..Len(drains), netOk \in BOOLEAN :
           /\ Reached(i).key = "fokus_blocklist"
           /\ LET u == updateUserBlocklist(session, remoteRow, cache,
                                           Reached(i).newValue, netOk)
              IN  /\ remoteRow' = u.row
                  /\ cache' = u.cache
                  /\ applied' = IF u.success THEN applied \cup {Reached(i).id}
                                ELSE applied
           /\ LoopOn(i)
    /\ UNCHANGED <<syncInProgress, isOnline, lastSyncTime, lastSyncStored, syncQueue,
                   retryCount, syncInterval, retryTimers, debounceTimer>>
    /\ UNCHANGED <<cycles, returned>>
    /\ UNCHANGED <<mergeVars, gateVars, session, installedRules, response>>
    /\ UNCHANGED <<reply, intervalTimers, opsMade, lastStart, browserVars>>

\* processSyncOperation, case SETTINGS: auth.updateUser resolves
ReplaySettingsOp ==
    /\ \E i \in 1..Len(drains) :
           /\ Reached(i).key = "fokus_settings"
           /\ applied' = applied \cup {Reached(i).id}
           /\ LoopOn(i)
    /\ UNCHANGED <<syncInProgress, isOnline, lastSyncTime, lastSyncStored, syncQueue,
                   retryCount, syncInterval, retryTimers, debounceTimer>>
    /\ UNCHANGED <<cycles, returned>>
    /\ UNCHANGED <<mergeVars, storeVars, gateVars>>
    /\ UNCHANGED <<reply, intervalTimers, opsMade, lastStart, browserVars>>

\* this.syncQueue.unshift(...queue)
Requeued(batch, queue) == batch \o queue

\* processSyncOperation, case SETTINGS: auth.updateUser rejects, and the catch
\* block of processSyncQueue puts the whole batch back
ReplaySettingsOpThrows ==
    /\ \E i \in 1..Len(drains) :
           /\ Reached(i).key = "fokus_settings"
           /\ syncQueue' = Requeued(drains[i].batch, syncQueue)
           /\ drains' = RemoveAt(drains, i)
           /\ calls' = AfterDrain(drains[i])
    /\ UNCHANGED <<syncInProgress, isOnline, lastSyncTime, lastSyncStored,
                   retryCount, syncInterval, retryTimers, debounceTimer>>
    /\ UNCHANGED <<cycles, returned>>
    /\ UNCHANGED <<mergeVars, storeVars, gateVars, auxVars, browserVars>>

NextQueue ==
    \/ QueueSync
    \/ DebounceFire
    \/ GoOnline
    \/ GoOffline
    \/ ReplayBlocklistOp
    \/ ReplaySettingsOp
    \/ ReplaySettingsOpThrows

SpecQueue == InitSync /\ [][NextQueue]_vars

-----------------------------------------------------------------------------
(* One local write and what follows from it: the cache write of a replay *)

\* the blocklist operations whose replay has written the cache
CacheWrites == {id \in applied : opsMade[id] = "fokus_blocklist"}

\* the cache writes whose chrome.storage.onChanged event has not been handled:
\* every operation after the first one was queued by such an event
ChangesDue == Cardinality(CacheWrites) - (Len(opsMade) - 1)

\* the blocklists the user's write may store
LocalBlocklists ==
    {Put(EmptyRow, "domains", d) : d \in ListsOver(PayloadDomainNames, MaxListLen)}

\* the user's one write to a synced key: handleStorageChange, queueSync
LocalWrite ==
    /\ opsMade = <<>>
    /\ \E key \in SyncKeys, blocklist \in LocalBlocklists :
           /\ syncQueue' = Append(syncQueue,
                  [key |-> key, id |-> 1,
                   newValue |-> IF key = "fokus_blocklist" THEN blocklist ELSE <<>>])
           /\ opsMade' = <<key>>
    /\ debounceTimer' = TRUE
    /\ UNCHANGED <<syncInProgress, isOnline, lastSyncTime, lastSyncStored, retryCount,
                   syncInterval, retryTimers, calls, drains>>
    /\ UNCHANGED <<cycles, returned>>
    /\ UNCHANGED <<mergeVars, storeVars, gateVars, reply, intervalTimers, applied,
                   lastStart, browserVars>>

\* chrome.storage.onChanged for the row that updateUserBlocklist has cached
\* under 'fokus_blocklist' (its updated_at is new): handleStorageChange,
\* queueSync with the cached row as newValue
CacheChanged ==
    /\ opsMade # <<>>
    /\ ChangesDue > 0
    /\ Len(opsMade) < MaxOps
    /\ shouldSyncKey("fokus_blocklist")
    /\ syncQueue' = Append(syncQueue,
           [key |-> "fokus_blocklist", id |-> Len(opsMade) + 1, newValue |-> cache.obj])
    /\ opsMade' = Append(opsMade, "fokus_blocklist")
    /\ debounceTimer' = TRUE
    /\ UNCHANGED <<syncInProgress, isOnline, lastSyncTime, lastSyncStored, retryCount,
                   syncInterval, retryTimers, calls, drains>>
    /\ UNCHANGED <<cycles, returned>>
    /\ UNCHANGED <<mergeVars, storeVars, gateVars, reply, intervalTimers, applied,
                   lastStart, browserVars>>

NextEcho ==
    \/ LocalWrite
    \/ CacheChanged
    \/ DebounceFire
    \/ GoOnline
    \/ GoOffline
    \/ ReplayBlocklistOp
    \/ ReplaySettingsOp
    \/ ReplaySettingsOpThrows

SpecEcho == InitSync /\ [][NextEcho]_vars

-----------------------------------------------------------------------------
(* Rule recompilation step by step: applyBlockingRules between its awaits *)

\* the blocklists handed to applyBlockingRules
AppliedBlocklists ==
    {Put(EmptyRow, "domains", d) : d \in ListsOver(DomainNames, MaxListLen)}

\* applyBlockingRules(blocklist) up to its first await: the rules array is
\* built and getDynamicRules() is called
ApplyCompile ==
    \E p \in Slots, blocklist \in AppliedBlocklists :
        /\ applying[p].pc \in {"idle", "done"}
        /\ applying' = [applying EXCEPT ![p] =
               [NotApplying EXCEPT !.pc = "getting", !.blocklist = blocklist,
                                   !.rules = CompileRules(blocklist)]]
        /\ UNCHANGED <<mergeVars, storeVars, gateVars, syncVars, auxVars, tab, navigations, areaVars, lateVars>>

\* getDynamicRules() resolves with the rules installed now; ruleIds is taken
\* from them and updateDynamicRules({removeRuleIds: ruleIds, addRules: rules})
\* is called
ApplyGotRules ==
    \E p \in Slots :
        /\ applying[p].pc = "getting"
        /\ applying' = [applying EXCEPT ![p].pc = "updating",
                                        ![p].ruleIds = IdsOf(installedRules)]
        /\ UNCHANGED <<mergeVars, storeVars, gateVars, syncVars, auxVars, tab, navigations, areaVars, lateVars>>

\* updateDynamicRules settles: the browser has applied or rejected the
\* update; a rejection is caught and logged, and applyBlockingRules returns
ApplyUpdated ==
    \E p \in Slots :
        LET u == updateDynamicRules(installedRules, applying[p].ruleIds, applying[p].rules)
        IN  /\ applying[p].pc = "updating"
            /\ installedRules' = u.installed
            /\ applying' = [applying EXCEPT ![p].pc = "done",
                                            ![p].rejected = u.rejected,
                                            ![p].left = u.installed]
            /\ UNCHANGED <<session, remoteRow, cache, response>>
            /\ UNCHANGED <<mergeVars, gateVars, syncVars, auxVars, tab, navigations, areaVars, lateVars>>

NextApply ==
    \/ ApplyCompile
    \/ ApplyGotRules
    \/ ApplyUpdated

SpecApply == InitBlock /\ [][NextApply]_vars

-----------------------------------------------------------------------------
(* Navigation listener: onBeforeNavigate, logBlockEvent, the redirect *)

\* how many listener invocations may be awaiting logBlockEvent at once
MaxNavigations == 2

\* the blocklist the navigations are checked against
NavRow == Put(Put(EmptyRow, "keywords", <<S_news>>), "domains", <<S_blocked_com>>)

NavUrls == {S_url_exact, S_url_keyword, S_url_clean}

\* 0 is the main frame
FrameIds == {0, 1}

\* logBlockEvent resolved with success, resolved with a failure, or threw
\* inside its try block and returned the failure from its catch block
LogOutcomes == {"success", "failure", "thrown"}

\* a listener that checks the navigations of every frame
MainFrameOnly_AnyFrame(frameId) == TRUE

\* if (details.frameId !== 0) return
MainFrameOnly(frameId) == frameId = 0

\* a listener whose redirect is lost when logging throws
AfterLogging_ThrowAborts(n, outcome) ==
    IF outcome = "thrown" THEN tab
    ELSE [kind |-> "interstitial", url |-> n.url, reason |-> n.decision.reason,
          logged |-> outcome, frameId |-> n.frameId]

\* chrome.tabs.update(details.tabId, {url: blocked.html?url=...&reason=...})
\* after the awaited logBlockEvent: url and reason are the values handed to
\* encodeURIComponent
AfterLogging(n, outcome) ==
    [kind |-> "interstitial", url |-> n.url, reason |-> n.decision.reason,
     logged |-> outcome, frameId |-> n.frameId]

\* a signed-in user with the blocklist NavRow, cached or not, a blank tab
InitNav ==
    /\ session = TRUE
    /\ remoteRow = NavRow
    /\ cache \in {Absent, Present(NavRow)}
    /\ installedRules = applyBlockingRules(<<>>, NavRow)
    /\ response = NoResponse
    /\ GateIdle
    /\ ListenerIdle
    /\ BrowserIdle
    /\ MergeIdle
    /\ strategy = "server_wins"
    /\ SyncIdle

\* a frame of the tab starts to navigate: the listener returns for a
\* sub-frame, else awaits checkUrlBlocked and, given a decision, calls
\* logBlockEvent
BeforeNavigate ==
    /\ Len(navigations) < MaxNavigations
    /\ \E url \in NavUrls, frameId \in FrameIds, netOk \in BOOLEAN :
           /\ tab' = IF frameId = 0 THEN Page(url) ELSE tab
           /\ IF MainFrameOnly(frameId)
              THEN /\ CheckUrl(url, netOk)
                   /\ navigations' =
                          IF lastCheck'.decision.blocked
                          THEN Append(navigations,
                                   [url |-> url, frameId |-> frameId,
                                    decision |-> lastCheck'.decision])
                          ELSE navigations
              ELSE UNCHANGED <<storeVars, gateVars, navigations>>
    /\ UNCHANGED <<mergeVars, syncVars, auxVars, applying, areaVars, lateVars>>

\* the awaited logBlockEvent settles and the tab is redirected
LogSettles ==
    /\ \E i \in 1..Len(navigations), outcome \in LogOutcomes :
           /\ tab' = AfterLogging(navigations[i], outcome)
           /\ navigations' = RemoveAt(navigations, i)
    /\ UNCHANGED <<mergeVars, storeVars, gateVars, syncVars, auxVars, applying, areaVars, lateVars>>

NextNav ==
    \/ BeforeNavigate
    \/ LogSettles

SpecNav == InitNav /\ [][NextNav]_vars

\* the logBlockEvent awaited longest is the one that settles in this step
OldestLogSettles == LogSettles /\ navigations' = Tail(navigations)

\* every awaited logBlockEvent eventually settles
SpecNavFair == SpecNav /\ WF_vars(OldestLogSettles)

-----------------------------------------------------------------------------
(* StorageManager.set: a write that fails, the eviction pass, the one retry *)

\* the _timestamp values of the entries: 0 for an entry that carries none
Stamps == {0, 1, 2}

\* Date.now() of a write: no stored entry is newer
Now == CHOOSE s \in Stamps : \A t \in Stamps : t <= s

S_quota == <<"q","u","o","t","a">>
S_quota_message == <<"Q","U","O","T","A","_","B","Y","T","E","S"," ","q","u","o","t","a"," ","e","x","c","e","e","d","e","d">>
S_io_message == <<"I","O"," ","e","r","r","o","r">>

\* the errors chrome.storage.local.set rejects with
WriteErrors == {S_quota_message, S_io_message}

\* error.message && error.message.includes('quota')
IsQuotaError(message) == strIncludes(message, S_quota)

\* Object.entries(allData): the keys that hold an entry
EntriesOf(held) == {k \in StoreKeys : held[k] # NoEntry}

\* a pass that rounds the number of entries to remove down
ToRemove_RoundedDown(n) == n \div 5

\* Math.ceil(entries.length * 0.2); the product in doubles and its ceiling
\* are those of the exact fifth for every length below 200
ToRemove(n) == (n + 4) \div 5

\* the place of key k in entries.sort((a, b) => a.timestamp - b.timestamp),
\* counted from 0: the sort is stable and the entries come in key order
PlaceOf(held, k) ==
    Cardinality({j \in EntriesOf(held) :
        held[j] < held[k] \/ (held[j] = held[k] /\ j < k)})

\* entries.slice(0, toRemove).map(e => e.key)
KeysToRemove(held) ==
    {k \in EntriesOf(held) : PlaceOf(held, k) < ToRemove(Cardinality(EntriesOf(held)))}

\* return true or return false: the invocation is over
SetReturns(call, result) == [call EXCEPT !.pc = "done", !.result = result]

\* any content of the storage area, the other components idle
InitStore ==
    /\ StoresIdle
    /\ GateIdle
    /\ ListenerIdle
    /\ MergeIdle
    /\ SyncIdle
    /\ strategy = "server_wins"
    /\ applying = [p \in Slots |-> NotApplying]
    /\ tab = Page(<<>>)
    /\ navigations = <<>>
    /\ area \in [StoreKeys -> {NoEntry} \cup Stamps]
    /\ setCall = NoSetCall
    /\ LateIdle

\* set(key, value): storage.set({[key]: {...value, _timestamp}}) resolves
SetStores ==
    /\ setCall.pc \in {"idle", "done"}
    /\ \E key \in StoreKeys :
           /\ area' = [area EXCEPT ![key] = Now]
           /\ setCall' = SetReturns([NoSetCall EXCEPT !.key = key, !.writes = 1], TRUE)
    /\ UNCHANGED <<mergeVars, storeVars, gateVars, syncVars, auxVars, applying, tab,
                   navigations, lateVars>>

\* set(key, value): storage.set rejects; a quota error calls
\* handleQuotaExceeded, whose storage.get(null) is awaited, any other error
\* returns false
SetRejected ==
    /\ setCall.pc \in {"idle", "done"}
    /\ \E key \in StoreKeys, message \in WriteErrors :
           LET call == [NoSetCall EXCEPT !.key = key, !.writes = 1]
           IN  setCall' = IF IsQuotaError(message)
                          THEN [call EXCEPT !.pc = "evicting", !.quota = TRUE,
                                            !.evictions = 1]
                          ELSE SetReturns(call, FALSE)
    /\ UNCHANGED area
    /\ UNCHANGED <<mergeVars, storeVars, gateVars, syncVars, auxVars, applying, tab,
                   navigations, lateVars>>

\* handleQuotaExceeded: storage.get(null) resolved, the oldest fifth of the
\* entries is removed, and set issues its one retry
EvictionPass ==
    /\ setCall.pc = "evicting"
    /\ area' = [k \in StoreKeys |-> IF k \in KeysToRemove(area) THEN NoEntry ELSE area[k]]
    /\ setCall' = [setCall EXCEPT !.pc = "retrying", !.evicted = "done",
                                  !.held = area, !.removed = KeysToRemove(area),
                                  !.writes = @ + 1]
    /\ UNCHANGED <<mergeVars, storeVars, gateVars, syncVars, auxVars, applying, tab,
                   navigations, lateVars>>

\* handleQuotaExceeded: storage.get(null) or storage.remove rejected; the
\* error is logged, nothing is removed, and set issues its one retry
EvictionFails ==
    /\ setCall.pc = "evicting"
    /\ setCall' = [setCall EXCEPT !.pc = "retrying", !.evicted = "failed",
                                  !.held = area, !.writes = @ + 1]
    /\ UNCHANGED area
    /\ UNCHANGED <<mergeVars, storeVars, gateVars, syncVars, auxVars, applying, tab,
                   navigations, lateVars>>

\* the retry storage.set({[key]: value}) resolves: the value is stored as it
\* is, without _timestamp, and set returns true
RetryStores ==
    /\ setCall.pc = "retrying"
    /\ area' = [area EXCEPT ![setCall.key] = 0]
    /\ setCall' = SetReturns([setCall EXCEPT !.retried = "stored"], TRUE)
    /\ UNCHANGED <<mergeVars, storeVars, gateVars, syncVars, auxVars, applying, tab,
                   navigations, lateVars>>

\* the retry rejects: the error is logged and set returns false
RetryRejected ==
    /\ setCall.pc = "retrying"
    /\ setCall' = SetReturns([setCall EXCEPT !.retried = "rejected"], FALSE)
    /\ UNCHANGED area
    /\ UNCHANGED <<mergeVars, storeVars, gateVars, syncVars, auxVars, applying, tab,
                   navigations, lateVars>>

NextStore ==
    \/ SetStores
    \/ SetRejected
    \/ EvictionPass
    \/ EvictionFails
    \/ RetryStores
    \/ RetryRejected

SpecStore == InitStore /\ [][NextStore]_vars

-----------------------------------------------------------------------------
(* SupabaseClient session: getSession, checkExistingSession, the clock *)

\* clock steps taken in one behaviour
MaxTicks == 3

\* expires_at: Math.floor(Date.now() / 1000) + 3600
SessionSeconds == 3600

\* one step of Date.now(), in milliseconds: half the life of a session
TickMs == (SessionSeconds * 1000) \div 2

\* the session object created at time now
SessionAt(now) == [present |-> TRUE, expires_at |-> (now \div 1000) + SessionSeconds]

\* this.session.expires_at && new Date(expires_at * 1000) < new Date()
ExpiredInMemory(s, now) == s.expires_at # 0 /\ s.expires_at * 1000 < now

\* getSession: an expired session held in memory is dropped and removed from
\* storage; a session held is returned; else the stored one is taken into
\* memory and returned as it is
getSession(a) ==
    IF a.session.present
    THEN IF ExpiredInMemory(a.session, a.now)
         THEN [a EXCEPT !.session = NoSession, !.stored = NoSession,
                        !.got = NoSession, !.gotAt = a.now, !.asked = TRUE]
         ELSE [a EXCEPT !.got = a.session, !.gotAt = a.now, !.asked = TRUE]
    ELSE IF a.stored.present
         THEN [a EXCEPT !.session = a.stored,
                        !.got = a.stored, !.gotAt = a.now, !.asked = TRUE]
         ELSE [a EXCEPT !.got = NoSession, !.gotAt = a.now, !.asked = TRUE]

\* what every action of the session leaves alone
SessionOnly ==
    UNCHANGED <<mergeVars, storeVars, gateVars, syncVars, auxVars, applying, tab,
                navigations, areaVars, mutating, kv, signingOut>>

\* handleEmailConfirmation: the session is created, held and stored
ConfirmEmail ==
    /\ auth' = [auth EXCEPT !.session = SessionAt(auth.now),
                            !.stored = SessionAt(auth.now)]
    /\ SessionOnly

\* Date.now() moves on
ClockTick ==
    /\ auth.now < MaxTicks * TickMs
    /\ auth' = [auth EXCEPT !.now = @ + TickMs]
    /\ SessionOnly

\* the service worker starts again: the constructor sets this.session = null
Restart ==
    /\ auth' = [auth EXCEPT !.session = NoSession]
    /\ SessionOnly

\* a caller awaits getSession()
GetSession ==
    /\ auth' = getSession(auth)
    /\ SessionOnly

\* checkExistingSession with a stored session: getUser's request calls
\* getSession for its header; a user found keeps the stored session in
\* memory, no user removes it from storage
CheckExistingSession ==
    /\ auth.stored.present
    /\ \E user \in BOOLEAN :
          LET a == getSession(auth)
          IN  auth' = IF user
                      THEN [a EXCEPT !.session = auth.stored]
                      ELSE [a EXCEPT !.stored = NoSession]
    /\ SessionOnly

\* signOut: storage.clear() and this.session = null
ClearSession ==
    /\ auth' = [auth EXCEPT !.session = NoSession, !.stored = NoSession]
    /\ SessionOnly

InitAuth ==
    /\ StoresIdle
    /\ GateIdle
    /\ ListenerIdle
    /\ MergeIdle
    /\ SyncIdle
    /\ strategy = "server_wins"
    /\ BrowserIdle

NextAuth ==
    \/ ConfirmEmail
    \/ ClockTick
    \/ Restart
    \/ GetSession
    \/ CheckExistingSession
    \/ ClearSession

SpecAuth == InitAuth /\ [][NextAuth]_vars

-----------------------------------------------------------------------------
(* Blocklist mutations step by step: read, modify, write, apply *)

\* the mutations requested: the operation and its argument
MutationInputs ==
    {[op |-> "addDomain", arg |-> S_x_com], [op |-> "addDomain", arg |-> S_y_com],
     [op |-> "addKeyword", arg |-> S_news], [op |-> "removeDomain", arg |-> S_blocked_com]}

\* the blocklist of the user before the mutations
MutatedRow == Put(EmptyRow, "domains", <<S_blocked_com>>)

\* does the blocklist hold the entry the mutation is to add
AlreadyHeld(in, blocklist) ==
    \/ in.op = "addDomain" /\ arrIncludes(Get(blocklist, "domains"), normalizeDomain(in.arg))
    \/ in.op = "addKeyword" /\ arrIncludes(Get(blocklist, "keywords"), in.arg)

\* blocklist.domains.push(domain), blocklist.keywords.push(keyword),
\* blocklist.domains = blocklist.domains.filter(d => d !== domain)
Modified(in, blocklist) ==
    IF in.op = "addDomain"
    THEN Put(blocklist, "domains", Append(Get(blocklist, "domains"), normalizeDomain(in.arg)))
    ELSE IF in.op = "addKeyword"
    THEN Put(blocklist, "keywords", Append(Get(blocklist, "keywords"), in.arg))
    ELSE Put(blocklist, "domains", Without(Get(blocklist, "domains"), in.arg))

\* what the steps of a mutation leave alone
MutationOnly ==
    UNCHANGED <<mergeVars, gateVars, syncVars, auxVars, applying, tab, navigations,
                areaVars, auth, kv, signingOut>>

\* a mutation up to its second await: getUserBlocklist() has resolved, the
\* handler returns early or modifies the blocklist it was given and calls
\* updateUserBlocklist(blocklist)
MutationReads ==
    /\ \E p \in Mutators, in \in MutationInputs, netOk \in BOOLEAN :
          LET g == getUserBlocklist(session, remoteRow, cache, netOk)
              call == [NotMutating EXCEPT !.op = in.op, !.arg = in.arg]
          IN  /\ mutating[p].pc = "idle"
              /\ cache' = g.cache
              /\ mutating' = [mutating EXCEPT ![p] =
                    IF ~g.success THEN [call EXCEPT !.pc = "done"]
                    ELSE IF AlreadyHeld(in, g.data)
                    THEN [call EXCEPT !.pc = "done", !.success = TRUE]
                    ELSE [call EXCEPT !.pc = "updating",
                                      !.blocklist = Modified(in, g.data)]]
    /\ UNCHANGED <<session, remoteRow, installedRules, response>>
    /\ MutationOnly

\* updateUserBlocklist(blocklist) has resolved: the row is written and cached,
\* or the failure is returned
MutationUpdates ==
    /\ \E p \in Mutators, netOk \in BOOLEAN :
          LET u == updateUserBlocklist(session, remoteRow, cache,
                                       mutating[p].blocklist, netOk)
          IN  /\ mutating[p].pc = "updating"
              /\ remoteRow' = u.row
              /\ cache' = u.cache
              /\ mutating' = [mutating EXCEPT ![p] =
                    IF u.success THEN [@ EXCEPT !.pc = "applying", !.data = u.data]
                    ELSE [@ EXCEPT !.pc = "done"]]
    /\ UNCHANGED <<session, installedRules, response>>
    /\ MutationOnly

\* applyBlockingRules(updateResult.data) has resolved and updateResult is
\* returned
MutationApplies ==
    /\ \E p \in Mutators :
          /\ mutating[p].pc = "applying"
          /\ installedRules' = applyBlockingRules(installedRules, mutating[p].data)
          /\ mutating' = [mutating EXCEPT ![p] = [@ EXCEPT !.pc = "done", !.success = TRUE]]
    /\ UNCHANGED <<session, remoteRow, cache, response>>
    /\ MutationOnly

\* a signed-in user whose blocklist has been loaded
InitMutations ==
    /\ session = TRUE
    /\ remoteRow = MutatedRow
    /\ cache = Present(MutatedRow)
    /\ installedRules = applyBlockingRules(<<>>, MutatedRow)
    /\ response = NoResponse
    /\ GateIdle
    /\ ListenerIdle
    /\ BrowserIdle
    /\ MergeIdle
    /\ strategy = "server_wins"
    /\ SyncIdle

NextMutations ==
    \/ MutationReads
    \/ MutationUpdates
    \/ MutationApplies

SpecMutations == InitMutations /\ [][NextMutations]_vars

-----------------------------------------------------------------------------
(* StorageManager.get, set and remove over the in-memory cache *)

\* updateCache(key, value, ttl = 300000)
CACHE_TTL == 300000

\* the values handed to set: two plain objects and an array
SetValues ==
    {JsValue("object", <<[k |-> "a", v |-> 1]>>),
     JsValue("object", <<[k |-> "a", v |-> 2]>>),
     JsValue("array", <<[k |-> "0", v |-> 7]>>)}

\* {...value, _timestamp: Date.now()}: an object with the own properties of
\* value, array indices included, and _timestamp
Spread(value, now) == JsValue("object", Put(value.props, "_timestamp", now))

\* this.cache.set(key, {value, expiry: Date.now() + ttl})
updateCache(entries, i, value, now) ==
    [entries EXCEPT ![i] = [has |-> TRUE, value |-> value, expiry |-> now + CACHE_TTL]]

\* this.cache.has(key) && cached.expiry > Date.now()
CacheHit(entry, now) == entry.has /\ entry.expiry > now

\* what every action of the storage manager leaves alone
KvOnly ==
    UNCHANGED <<mergeVars, storeVars, gateVars, syncVars, auxVars, applying, tab,
                navigations, areaVars, auth, mutating, signingOut>>

\* set(key, value) on instance i, the write resolving: the spread value is
\* stored, the value itself is cached
KvSet ==
    /\ \E i \in Instances, value \in SetValues :
          kv' = [kv EXCEPT !.stored = Spread(value, kv.now),
                           !.cache = updateCache(kv.cache, i, value, kv.now),
                           !.wrote = TRUE, !.writer = i, !.written = value,
                           !.getter = 0, !.got = UndefinedValue]
    /\ KvOnly

\* remove(key) on instance i: storage.remove, this.cache.delete
KvRemove ==
    /\ \E i \in Instances :
          kv' = [kv EXCEPT !.stored = UndefinedValue,
                           !.cache = [@ EXCEPT ![i] = NoCacheEntry],
                           !.wrote = TRUE, !.writer = i, !.written = UndefinedValue,
                           !.getter = 0, !.got = UndefinedValue]
    /\ KvOnly

\* the key is written by chrome.storage.local.set outside the storage
\* managers; handleStorageChange notifies the listeners and leaves the caches
KvExternal ==
    /\ \E value \in SetValues :
          kv' = [kv EXCEPT !.stored = value,
                           !.wrote = TRUE, !.writer = 0, !.written = value,
                           !.getter = 0, !.got = UndefinedValue]
    /\ KvOnly

\* get(key) on instance i: the cached value while the entry is live, else the
\* stored value, cached anew, or the default null
KvGet ==
    /\ \E i \in Instances :
          kv' = IF CacheHit(kv.cache[i], kv.now)
                THEN [kv EXCEPT !.getter = i, !.got = kv.cache[i].value]
                ELSE IF kv.stored # UndefinedValue
                THEN [kv EXCEPT !.cache = updateCache(kv.cache, i, kv.stored, kv.now),
                                !.getter = i, !.got = kv.stored]
                ELSE [kv EXCEPT !.cache = [@ EXCEPT ![i] = NoCacheEntry],
                                !.getter = i, !.got = NullValue]
    /\ KvOnly

\* Date.now() moves on by the life of a cache entry
KvTick ==
    /\ kv.now < MaxTicks * CACHE_TTL
    /\ kv' = [kv EXCEPT !.now = @ + CACHE_TTL]
    /\ KvOnly

NextKv ==
    \/ KvSet
    \/ KvRemove
    \/ KvExternal
    \/ KvGet
    \/ KvTick

SpecKv == InitAuth /\ [][NextKv]_vars

-----------------------------------------------------------------------------
(* AUTH_SIGN_OUT step by step, with rule recompilations in flight *)

\* what the steps of the sign-out and of the recompilations leave alone
RulesOnly ==
    UNCHANGED <<mergeVars, gateVars, syncVars, auxVars, tab, navigations, areaVars,
                auth, mutating, kv>>

\* a handler of the signed-in user calls applyBlockingRules(blocklist): the
\* rules array is built and getDynamicRules() is called
ApplyForUser ==
    /\ session
    /\ \E p \in Slots, blocklist \in AppliedBlocklists :
          /\ applying[p].pc \in {"idle", "done"}
          /\ applying' = [applying EXCEPT ![p] =
                 [NotApplying EXCEPT !.pc = "getting", !.blocklist = blocklist,
                                     !.rules = CompileRules(blocklist)]]
    /\ UNCHANGED <<storeVars, signingOut>>
    /\ RulesOnly

\* AUTH_SIGN_OUT: supabaseClient.signOut() has resolved with success, the
\* storage and the session are cleared; handleUserSignedOut calls
\* clearBlockingRules, which calls getDynamicRules()
SignOutClearsSession ==
    /\ session
    /\ signingOut.pc = "idle"
    /\ session' = FALSE
    /\ cache' = Absent
    /\ signingOut' = [signingOut EXCEPT !.pc = "getting", !.success = TRUE]
    /\ UNCHANGED <<remoteRow, installedRules, response, applying>>
    /\ RulesOnly

\* clearBlockingRules: getDynamicRules() resolves; with rules installed
\* updateDynamicRules({removeRuleIds: ruleIds}) is called, with none the
\* handler returns signOutResult
SignOutGotRules ==
    /\ signingOut.pc = "getting"
    /\ IF IdsOf(installedRules) # {}
       THEN /\ signingOut' = [signingOut EXCEPT !.pc = "removing",
                                                !.ruleIds = IdsOf(installedRules)]
            /\ UNCHANGED response
       ELSE /\ signingOut' = [signingOut EXCEPT !.pc = "done"]
            /\ response' = Answer("signOut", <<>>, TRUE, "signed out")
    /\ UNCHANGED <<session, remoteRow, cache, installedRules, applying>>
    /\ RulesOnly

\* clearBlockingRules: updateDynamicRules settles, and the handler returns
\* signOutResult
SignOutRemovedRules ==
    /\ signingOut.pc = "removing"
    /\ installedRules' = updateDynamicRules(installedRules, signingOut.ruleIds, <<>>).installed
    /\ signingOut' = [signingOut EXCEPT !.pc = "done"]
    /\ response' = Answer("signOut", <<>>, TRUE, "signed out")
    /\ UNCHANGED <<session, remoteRow, cache, applying>>
    /\ RulesOnly

NextSignOut ==
    \/ ApplyForUser
    \/ ApplyGotRules
    \/ ApplyUpdated
    \/ SignOutClearsSession
    \/ SignOutGotRules
    \/ SignOutRemovedRules

SpecSignOut == InitNav /\ [][NextSignOut]_vars

-----------------------------------------------------------------------------
(* Message listener: every message type of handleMessage and its answer *)

\* the settings object of getSettings and updateSettings
SettingsObject == Plain({"notifications", "soundEnabled", "strictMode",
                         "whitelistMode", "customBlockPage", "syncEnabled"})

\* checkUrlBlocked answers null or { blocked, type, source, reason }
DecisionValue(d) ==
    IF d = NullDecision THEN JsNull
    ELSE Plain({"blocked", "type", "source", "reason"})

\* catch (error) { sendResponse({ success: false, error: error.message || ... }) }
Caught == Failure({"error"})

\* what a handler that touches none of the stores leaves alone
StoresUntouched ==
    UNCHANGED <<mergeVars, storeVars, gateVars, syncVars, schedVars, browserVars>>

\* AUTH_GET_SESSION: session ? { success: true, data: session } : { success: false }
GetSessionMsg ==
    /\ reply' = Sent("AUTH_GET_SESSION",
                     IF session THEN Succeeded({"data"}) ELSE Failure({}))
    /\ StoresUntouched

\* BLOCKLIST_GET: the answer of getUserBlocklist as it is
BlocklistGetMsg ==
    /\ \E netOk \in BOOLEAN :
           LET g == getUserBlocklist(session, remoteRow, cache, netOk)
           IN  /\ cache' = g.cache
               /\ reply' = Sent("BLOCKLIST_GET",
                                IF g.success THEN Succeeded({"data"})
                                ELSE Failure({"error"}))
    /\ UNCHANGED <<session, remoteRow, installedRules, response>>
    /\ UNCHANGED <<mergeVars, gateVars, syncVars, schedVars, browserVars>>

\* STATS_GET, STATS_GET_TODAY: the answer of getUserStats as it is
StatsMsg ==
    /\ \E type \in {"STATS_GET", "STATS_GET_TODAY"}, netOk \in BOOLEAN :
           reply' = Sent(type, IF session /\ netOk THEN Succeeded({"data"})
                               ELSE Failure({"error"}))
    /\ StoresUntouched

\* SETTINGS_GET, SETTINGS_UPDATE: the settings object itself
SettingsMsg ==
    /\ \E type \in {"SETTINGS_GET", "SETTINGS_UPDATE"} :
           reply' = Sent(type, SettingsObject)
    /\ StoresUntouched

MsgUrls == {S_url_exact, S_url_keyword, S_url_clean, S_url_invalid}

\* CHECK_URL_BLOCKED: the decision of checkUrlBlocked itself
CheckUrlBlockedMsg ==
    /\ \E url \in MsgUrls, netOk \in BOOLEAN :
           LET g == getUserBlocklist(session, remoteRow, cache, netOk)
           IN  /\ cache' = g.cache
               /\ reply' = Sent("CHECK_URL_BLOCKED",
                                DecisionValue(checkUrlBlocked(url, g)))
    /\ UNCHANGED <<session, remoteRow, installedRules, response>>
    /\ UNCHANGED <<mergeVars, gateVars, syncVars, schedVars, browserVars>>

\* GET_MOTIVATIONAL_QUOTE: one of the quotes, { text, author }
QuoteMsg ==
    /\ reply' = Sent("GET_MOTIVATIONAL_QUOTE", Plain({"text", "author"}))
    /\ StoresUntouched

\* BLOCK_PAGE: { success: true }, unless chrome.tabs.query rejects
BlockPageMsg ==
    /\ \E tabsOk \in BOOLEAN :
           reply' = Sent("BLOCK_PAGE", IF tabsOk THEN Succeeded({}) ELSE Caught)
    /\ StoresUntouched

\* TEMP_UNBLOCK: { success: true }
TempUnblockMsg ==
    /\ reply' = Sent("TEMP_UNBLOCK", Succeeded({}))
    /\ StoresUntouched

\* LOG_BLOCK_EVENT: logBlockEvent returns what supabaseClient.logBlockEvent
\* resolves to, { success: true } or { success: false, error }, and
\* { success: false, error } when it throws
LogBlockEventMsg ==
    /\ \E logged \in BOOLEAN :
           reply' = Sent("LOG_BLOCK_EVENT", IF logged THEN Succeeded({}) ELSE Failure({"error"}))
    /\ StoresUntouched

\* default: throw new Error('Unknown message type: ...'), caught by the listener
UnknownMsg ==
    /\ reply' = Sent("UNKNOWN", Caught)
    /\ StoresUntouched

\* the messages of one session: the keyword handlers stand for the five
\* blocklist mutations, which answer alike
NextMsg ==
    \/ SignInMsg
    \/ SignOutMsg
    \/ GetSessionMsg
    \/ BlocklistGetMsg
    \/ AddKeywordMsg
    \/ RemoveKeywordMsg
    \/ StatsMsg
    \/ SettingsMsg
    \/ CheckUrlBlockedMsg
    \/ QuoteMsg
    \/ BlockPageMsg
    \/ TempUnblockMsg
    \/ LogBlockEventMsg
    \/ UnknownMsg

SpecMsg == InitBlock /\ [][NextMsg]_vars

-----------------------------------------------------------------------------
(* Claims about the merge engine *)

Entries(obj, f) == {GetOrEmpty(obj, f)[i] : i \in 1..Len(GetOrEmpty(obj, f))}

BothPresentMerge ==
    resolved.called /\ strategy = "merge" /\ local.present /\ remote.present

CarriesAllLists(obj) == \A n \in 1..Len(ListFields) : Has(obj, ListFields[n])

\* some entry of a local list is missing from the same list of remote
LocalHasUniqueEntry ==
    \E n \in 1..Len(ListFields) :
        Entries(local.obj, ListFields[n]) \ Entries(remote.obj, ListFields[n]) # {}

C3_LocalChangesIffUniqueEntry ==
    BothPresentMerge =>
        /\ ~resolved.result.threw
        /\ resolved.result.localChanges = LocalHasUniqueEntry
        /\ (/\ local.obj = <<[k |-> "domains", v |-> <<S_x_com>>]>>
            /\ remote.obj = <<[k |-> "domains", v |-> <<S_y_com>>]>>)
           => /\ Get(resolved.result.merged.obj, "domains") = <<S_x_com, S_y_com>>
              /\ resolved.result.localChanges

\* the normal form the blocklist is meant to hold a domain in: lower case, no
\* scheme, no leading "www.", no trailing slash
CanonicalDomain(s) ==
    LET bare == StripWww(StripScheme(toLowerCase(s)))
    IN  IF bare # <<>> /\ bare[Len(bare)] = "/" THEN SubSeq(bare, 1, Len(bare) - 1)
        ELSE bare

SameDomainEntries(arg) ==
    {i \in 1..Len(Get(remoteRow, "domains")) :
        CanonicalDomain(Get(remoteRow, "domains")[i]) = CanonicalDomain(arg)}

\* C5: addDomain normalizes its input (lower case, scheme, leading "www." and
\* trailing slash removed) before the duplicate check: once addDomain has
\* answered with success, the blocklist holds exactly one entry for that
\* domain, so that addDomain('WWW.Example.COM/') followed by
\* addDomain('example.com') leaves the single entry 'example.com'.
C5_AddDomainNormalizesBeforeDuplicateCheck ==
    (response.op = "addDomain" /\ response.success) =>
        /\ Cardinality(SameDomainEntries(response.arg)) = 1
        /\ response.arg = S_example_com =>
               \A i \in SameDomainEntries(response.arg) :
                   Get(remoteRow, "domains")[i] = S_example_com

\* C6: whatever sequence of additions, removals, imports and merges runs from
\* the empty blocklist, domains never holds the same entry twice and keywords
\* never holds two entries equal up to letter case.
C6_NoDuplicateEntries ==
    /\ \A i, j \in 1..Len(Get(remoteRow, "domains")) :
           i # j => Get(remoteRow, "domains")[i] # Get(remoteRow, "domains")[j]
    /\ \A i, j \in 1..Len(Get(remoteRow, "keywords")) :
           i # j => toLowerCase(Get(remoteRow, "keywords")[i])
                        # toLowerCase(Get(remoteRow, "keywords")[j])

\* C12: outside the 'merge' strategy, resolveBlocklistConflicts returns
\* hasChanges = false and merged = null when both sides are absent; merged =
\* remote with localChanges = false when only remote is present; merged = local
\* with localChanges = true when only local is present; merged = remote with
\* localChanges = false under server_wins and merged = local with localChanges
\* = true under client_wins when both are present
C12_NonMergeStrategiesPickOneSide ==
    (resolved.called /\ strategy # "merge") =>
        LET res == resolved.result
        IN  /\ ~res.threw
            /\ (~local.present /\ ~remote.present) =>
                   ~res.hasChanges /\ res.merged = Absent
            /\ (~local.present /\ remote.present) =>
                   res.merged = remote /\ res.hasLocalChanges /\ ~res.localChanges
            /\ (local.present /\ ~remote.present) =>
                   res.merged = local /\ res.hasLocalChanges /\ res.localChanges
            /\ (local.present /\ remote.present /\ strategy = "server_wins") =>
                   res.merged = remote /\ res.hasLocalChanges /\ ~res.localChanges
            /\ (local.present /\ remote.present /\ strategy = "client_wins") =>
                   res.merged = local /\ res.hasLocalChanges /\ res.localChanges

\* client_wins has resolved two blocklists that differ in favour of local
C12_Witness ==
    /\ resolved.called
    /\ strategy = "client_wins"
    /\ local.present /\ remote.present
    /\ Entries(local.obj, "domains") = {S_x_com}
    /\ Entries(remote.obj, "domains") = {S_y_com}
    /\ resolved.result.merged = local
    /\ resolved.result.localChanges

Keys(obj) == {obj[i].k : i \in 1..Len(obj)}

IsListField(key) == \E n \in 1..Len(ListFields) : ListFields[n] = key

\* structural equality of two blocklists that takes a list field for the
\* entries it holds, in whatever order
SameUpToListOrder(a, b) ==
    /\ Keys(a) = Keys(b)
    /\ \A key \in Keys(a) :
          IF IsListField(key)
          THEN /\ Len(Get(a, key)) = Len(Get(b, key))
               /\ Entries(a, key) = Entries(b, key)
          ELSE Get(a, key) = Get(b, key)

\* C13: hasChanges is true if and only if the merged blocklist differs
\* structurally from the local snapshot, lists being compared without regard
\* to the order of their elements: a merged result whose lists hold the
\* entries of local in another order gives hasChanges = false
C13_HasChangesIgnoresListOrder ==
    (resolved.called /\ ~resolved.result.threw /\ local.present /\ remote.present) =>
        (resolved.result.hasChanges <=>
            ~SameUpToListOrder(local.obj, resolved.result.merged.obj))

-----------------------------------------------------------------------------
(* Claims about the URL blocking gate *)

endsWith(s, p) == Len(p) <= Len(s) /\ SubSeq(s, Len(s) - Len(p) + 1, Len(s)) = p

\* host is d or a subdomain of d
HostMatches(host, d) == host = d \/ endsWith(host, S_dot \o d)

\* C4: whenever the normalized host of the URL equals a blocklist domain or is
\* a subdomain of one, checkUrlBlocked returns a domain decision naming that
\* blocklist domain; https://sub.blocked.com/page against domains=[blocked.com]
\* gives a domain decision for blocked.com.
C4_SubdomainOfBlockedDomainIsBlocked ==
    (lastCheck.valid /\ lastCheck.obtained /\ ~UrlThrows(lastCheck.url)) =>
        \A i \in 1..Len(Get(lastCheck.blocklist, "domains")) :
            HostMatches(CheckedDomain(lastCheck.url), Get(lastCheck.blocklist, "domains")[i]) =>
                /\ lastCheck.decision.type = "domain"
                /\ \E j \in 1..Len(Get(lastCheck.blocklist, "domains")) :
                       /\ lastCheck.decision.source = Get(lastCheck.blocklist, "domains")[j]
                       /\ HostMatches(CheckedDomain(lastCheck.url), lastCheck.decision.source)

\* C10: two invocations of checkUrlBlocked with the same URL, made while the
\* blocklist (the remote row, the cached copy and the session) is the same,
\* return equal decisions: the same type, source and reason, or both null.
C10_SameUrlSameBlocklistSameDecision ==
    (/\ prevCheck.valid
     /\ lastCheck.valid
     /\ prevCheck.url = lastCheck.url
     /\ prevCheck.signedIn = lastCheck.signedIn
     /\ prevCheck.row = lastCheck.row
     /\ prevCheck.cached = lastCheck.cached) =>
        prevCheck.decision = lastCheck.decision


\* C27: checkUrlBlocked has no side effects: after an invocation the cached
\* blocklist, the remote row and the session are what they were before it.
C27_CheckUrlBlockedChangesNothing ==
    lastCheck.valid =>
        /\ cache = lastCheck.cached
        /\ remoteRow = lastCheck.row
        /\ session = lastCheck.signedIn

\* the keywords of a list that occur in the URL, letter case ignored, by position
MatchingKeywords(url, keywords) ==
    {i \in 1..Len(keywords) : strIncludes(toLowerCase(url), toLowerCase(keywords[i]))}

\* the host of the URL as the gate compares it; none when the URL does not parse
HostOf(url) == IF UrlThrows(url) THEN <<>> ELSE CheckedDomain(url)

\* C28: checkUrlBlocked checks domains before keywords: when the host of the
\* URL matches a blocked domain the decision is a domain decision, also when a
\* keyword occurs in the URL; otherwise the first keyword of the list that
\* occurs in the URL, letter case ignored, gives a keyword decision; otherwise
\* the result is null.
C28_DomainsBeforeKeywords ==
    (lastCheck.valid /\ lastCheck.obtained) =>
        LET domains == Get(lastCheck.blocklist, "domains")
            keywords == Get(lastCheck.blocklist, "keywords")
            found == MatchingKeywords(lastCheck.url, keywords)
        IN  IF \E i \in 1..Len(domains) : HostMatches(HostOf(lastCheck.url), domains[i])
            THEN lastCheck.decision.type = "domain"
            ELSE IF found # {}
            THEN lastCheck.decision =
                     KeywordDecision(keywords[CHOOSE i \in found : \A j \in found : i <= j])
            ELSE lastCheck.decision = NullDecision


\* the decisions checkUrlBlocked can return for the navigations
NavDecisions ==
    {checkUrlBlocked(u, [success |-> TRUE, data |-> NavRow]) : u \in NavUrls}
        \ {NullDecision}

\* a listener holds decision d for a navigation of the main frame to u
Decided(u, d) ==
    \E i \in 1..Len(navigations) :
        navigations[i].url = u /\ navigations[i].decision = d

-----------------------------------------------------------------------------
(* Claims about the rule compiler *)

RuleIds == {installedRules[i].id : i \in 1..Len(installedRules)}

UpdateApplied == response.op = "updateBlocklist" /\ response.success

\* C7: for a blocklist of at most MAX_RULES domains, applyBlockingRules
\* installs exactly one rule per entry of domains, each blocking that domain,
\* with pairwise distinct positive ids, and no rule for any keyword.
C7_OneRulePerDomain ==
    (UpdateApplied /\ Len(Get(remoteRow, "domains")) <= MAX_RULES) =>
        /\ Len(installedRules) = Len(Get(remoteRow, "domains"))
        /\ \A i \in 1..Len(installedRules) :
               /\ installedRules[i].urlFilter
                      = S_rule_pre \o Get(remoteRow, "domains")[i] \o S_rule_post
               /\ installedRules[i].id > 0
        /\ Cardinality(RuleIds) = Len(installedRules)

\* a blocklist of two domains and a keyword has been compiled into two rules
C7_Witness ==
    /\ UpdateApplied
    /\ Get(remoteRow, "domains") = <<S_x_com, S_y_com>>
    /\ Get(remoteRow, "keywords") = <<S_news>>
    /\ Len(installedRules) = 2
    /\ installedRules[1].id # installedRules[2].id

\* C8: for a blocklist of more than MAX_RULES domains the rule installation
\* fails with RuleLimitExceeded and installs nothing of it, and the installed
\* rule set never holds more than MAX_RULES rules.
C8_OverLimitFailsWithRuleLimitExceeded ==
    /\ Len(installedRules) <= MAX_RULES
    /\ (response.op = "updateBlocklist" /\ Len(Get(remoteRow, "domains")) > MAX_RULES) =>
           /\ ~response.success
           /\ response.message = "RuleLimitExceeded"

-----------------------------------------------------------------------------
(* Claims about the sync scheduler *)

\* C1: at most one sync cycle is in progress at any time, and a syncNow()
\* invoked while an earlier invocation has not resolved returns 'Sync already
\* in progress' without draining the queue or launching a remote fetch,
\* whichever of the interval timer, a retry timer, start() or a manual
\* invocation made the calls.
C1_AtMostOneSyncCycle ==
    /\ Len(calls) <= 1
    /\ \A c \in 1..Len(calls) : ~calls[c].overlapped
    /\ (returned.pc = "done" /\ returned.overlapped) =>
           /\ returned.result = "Sync already in progress"
           /\ ~returned.drained
           /\ ~returned.fetched

C1_Witness ==
    /\ returned.pc = "done"
    /\ returned.overlapped
    /\ returned.result = "Sync already in progress"
    /\ Len(calls) = 1
    /\ calls[1].pc = "drain"

\* C9: a cycle that started its four sub-syncs goes on only after all four
\* have settled, whatever number of them rejected; it returns success, with
\* errors equal to the number of rejected sub-syncs, and lastSyncTime updated.
C9_RejectedSubSyncDoesNotAbortCycle ==
    /\ \A c \in 1..Len(calls) :
           calls[c].pc = "store" =>
               /\ \A n \in SubSyncs : calls[c].subs[n] \in {"fulfilled", "rejected"}
               /\ calls[c].errors = RejectedCount(calls[c].subs)
               /\ lastSyncTime = calls[c].id
    /\ (returned.pc = "done" /\ returned.launched) =>
           /\ returned.settled = Cardinality(SubSyncs)
           /\ returned.result = "success"
           /\ returned.errors = returned.rejected
           /\ returned.stamped

C9_Witness ==
    /\ returned.pc = "done"
    /\ returned.launched
    /\ returned.result = "success"
    /\ returned.rejected = 1
    /\ returned.errors = 1
    /\ returned.stamped

-----------------------------------------------------------------------------
(* Claims about the message listener *)

Answered == reply # NoReply

\* C11: every message handled by the background service, whatever its type,
\* is answered with an object that carries a boolean success field, with data
\* when success is true and error when it is false
C11_EveryAnswerCarriesSuccess ==
    Answered =>
        /\ reply.sent.kind = "object"
        /\ "success" \in reply.sent.keys
        /\ reply.sent.success => "data" \in reply.sent.keys
        /\ ~reply.sent.success => "error" \in reply.sent.keys

\* C14: calling start() while the scheduler is already running is a no-op: it
\* starts no sync and sets no second interval timer, so whatever start() and
\* stop() calls were made, at most one periodic timer exists
C14_StartWhileRunningIsNoOp ==
    [][/\ (Start /\ Running) =>
              UNCHANGED <<syncInProgress, calls, cycles, returned, syncInterval,
                          intervalTimers>>
       /\ intervalTimers' <= 1
       /\ intervalTimers' = IF syncInterval' THEN 1 ELSE 0]_vars

\* start() has been called on a running scheduler in the middle of a cycle
C14_Witness ==
    /\ lastStart = "already running"
    /\ syncInterval
    /\ intervalTimers = 1
    /\ syncInProgress
    /\ Len(calls) = 1

\* a step in which syncNow() is called: by the interval timer, by a retry
\* timer, from outside, or by a start() that finds the scheduler stopped
SyncNowCalled == IntervalTick \/ RetryFire \/ ManualSync \/ (Start /\ ~Running)

\* what a syncNow() that returns at once must leave as it is
SchedulerStateKept ==
    /\ UNCHANGED <<syncInProgress, retryCount, lastSyncTime, lastSyncStored,
                   syncQueue, calls, cycles, drains>>
    /\ Len(retryTimers') <= Len(retryTimers)

\* C15 as stated: whenever the device is offline, syncNow() returns
\* {success: false, message: 'Offline'} at once and changes no scheduler
\* state: syncInProgress, retryCount, lastSyncTime and the pending queue are
\* unchanged and no retry is scheduled
C15_OfflineSyncNowReturnsOffline ==
    [][(SyncNowCalled /\ ~isOnline) =>
           /\ returned'.pc = "done"
           /\ returned'.result = "Offline"
           /\ SchedulerStateKept]_vars

\* C15, amended: when the device is offline and no sync cycle is in
\* progress, syncNow() returns {success: false, message: 'Offline'} at once
\* and changes no scheduler state
C15_OfflineSyncNowReturnsOfflineWhenIdle ==
    [][(SyncNowCalled /\ ~isOnline /\ ~syncInProgress) =>
           /\ returned'.pc = "done"
           /\ returned'.result = "Offline"
           /\ SchedulerStateKept]_vars

\* syncNow() has returned 'Offline' on an idle scheduler that holds a pending
\* operation
C15_Witness ==
    /\ ~isOnline
    /\ ~syncInProgress
    /\ returned.pc = "done"
    /\ returned.result = "Offline"
    /\ syncQueue # <<>>
    /\ calls = <<>>

\* C16: reset() stops the scheduler, empties the pending queue, sets
\* retryCount to 0, discards lastSyncTime, so that the sync status reports no
\* last sync time, and restarts the scheduler, also when a sync cycle or a
\* queue drain is in flight
C16_ResetDiscardsSchedulerState ==
    [][Reset =>
           /\ syncQueue' = <<>>
           /\ retryCount' = 0
           /\ getStatus'.lastSyncTime = 0
           /\ getStatus'.isRunning
           /\ intervalTimers' = 1]_vars

\* C17: when a sync cycle fails with an exception, retryCount grows by one
\* and exactly one retry of syncNow() is scheduled after
\* RETRY_DELAY * 2^(retryCount - 1) ms (1000, 2000, 4000), for each
\* consecutive failure up to maxRetries (3); beyond that none is scheduled
C17_EachFailureSchedulesOneBackoffRetry ==
    [][AuthRejects =>
           /\ retryCount' = retryCount + 1
           /\ retryTimers' =
                  IF retryCount' <= RETRY_ATTEMPTS
                  THEN Append(retryTimers, RETRY_DELAY * 2 ^ (retryCount' - 1))
                  ELSE retryTimers]_vars

\* C18: in every reachable state of the sync service 0 <= retryCount <=
\* maxRetries, whatever mix of retry-timer, interval-timer and manual
\* invocations of syncNow() fail
C18_RetryCountWithinMaxRetries ==
    retryCount \in 0..RETRY_ATTEMPTS

-----------------------------------------------------------------------------
(* Claims about the pending queue *)

OpsOf(seq) == {seq[n] : n \in 1..Len(seq)}

\* the operations in the queue or in the batch of a drain in flight
PendingIds ==
    {op.id : op \in OpsOf(syncQueue)}
        \cup UNION {{op.id : op \in OpsOf(drains[i].batch)} : i \in 1..Len(drains)}

\* a newer operation on the same key is pending or has been applied
Superseded(id) ==
    \E newer \in (id + 1)..Len(opsMade) :
        /\ opsMade[newer] = opsMade[id]
        /\ newer \in PendingIds \cup applied

\* C19: a pending operation leaves the queue only when it has been applied
\* to the remote store or is superseded by a newer operation on the same key;
\* an operation whose remote write fails stays queued for a later drain
C19_OperationLeavesQueueOnlyWhenApplied ==
    \A id \in 1..Len(opsMade) :
        id \notin PendingIds => (id \in applied \/ Superseded(id))

\* each queue holds its operations in the order they were enqueued
InEnqueueOrder(seq) ==
    \A m, n \in 1..Len(seq) : m < n => seq[m].id < seq[n].id

\* C20: processSyncQueue replays the queued operations in the order they were
\* enqueued; when an operation throws, the whole batch is put back at the
\* front of the queue in its original order, ahead of the operations enqueued
\* while the drain was running
C20_ReplayInEnqueueOrder ==
    [][/\ InEnqueueOrder(syncQueue')
       /\ \A i \in 1..Len(drains') : InEnqueueOrder(drains'[i].batch)
       /\ ReplaySettingsOpThrows =>
              \E i \in 1..Len(drains) :
                  /\ Reached(i).key = "fokus_settings"
                  /\ drains' = RemoveAt(drains, i)
                  /\ syncQueue' = drains[i].batch \o syncQueue]_vars


-----------------------------------------------------------------------------
(* Claims about overlapping rule recompilations *)

\* C21: when applyBlockingRules(blocklist) has completed, the installed
\* dynamic rules are exactly the rules compiled from that blocklist, no rule
\* of an earlier compilation remaining and no update having failed on a rule
\* id already in use, also when two invocations overlap.
C21_InstalledRulesAreTheCompiledSet ==
    \A p \in Slots :
        applying[p].pc = "done"
            => /\ ~applying[p].rejected
               /\ applying[p].left = CompileRules(applying[p].blocklist)


-----------------------------------------------------------------------------
(* Claims about the rules after a sync *)

\* C22: after a successful blocklist sync the installed blocking rules are the
\* rules of the domains of the synced blocklist, so that a change brought in
\* by the sync is compiled into the rule set.
C22_RulesFollowSyncedBlocklist ==
    (response.op = "syncBlocklist" /\ response.success /\ cache.present)
        => installedRules = CompileRules(cache.obj)


-----------------------------------------------------------------------------
(* Claims about one sync cycle *)

\* C23: a sync cycle that finds no authenticated user aborts before it drains
\* the pending queue or starts a sub-sync, leaves lastSyncTime and retryCount
\* as they were, schedules no retry and clears the in-progress flag.
C23_UnauthenticatedCycleAborts ==
    [][AuthNull =>
          /\ returned'.result = "Not authenticated"
          /\ ~returned'.drained /\ ~returned'.launched /\ ~returned'.stamped
          /\ syncQueue' = syncQueue /\ drains' = drains
          /\ lastSyncTime' = lastSyncTime /\ lastSyncStored' = lastSyncStored
          /\ retryCount' = retryCount
          /\ retryTimers' = retryTimers
          /\ ~syncInProgress']_vars

\* a cycle has aborted for want of a user while operations were pending and
\* earlier failures had been counted
C23_Witness ==
    /\ returned.pc = "done"
    /\ returned.result = "Not authenticated"
    /\ syncQueue # <<>>
    /\ retryCount > 0
    /\ ~syncInProgress

\* C24: every sync cycle that starts ends, given that each awaited call
\* settles, and on every way out (success, not authenticated, exception) the
\* in-progress flag is cleared: the flag is set exactly while an invocation of
\* syncNow is between its first await and its return, and it never stays set.
C24_EveryCycleEndsAndClearsTheFlag ==
    /\ [](syncInProgress <=> calls # <<>>)
    /\ (syncInProgress ~> ~syncInProgress)

\* a second cycle has ended through the catch block, the flag is cleared
C24_Witness ==
    /\ cycles > 1
    /\ returned.pc = "done"
    /\ returned.result = "error"
    /\ ~syncInProgress

\* C25: within one sync cycle no sub-sync has started while the drain of the
\* pending queue that the cycle awaits is still running.
C25_DrainPrecedesSubSyncs ==
    \A c \in 1..Len(calls) :
        calls[c].subs # NotLaunched
            => /\ calls[c].drained
               /\ \A i \in 1..Len(drains) : drains[i].owner # calls[c].id

\* a cycle is awaiting the drain it started, its sub-syncs not yet started
C25_Witness ==
    \E c \in 1..Len(calls), i \in 1..Len(drains) :
        /\ drains[i].owner = calls[c].id
        /\ calls[c].pc = "drain"
        /\ calls[c].subs = NotLaunched


\* the key of the remote write drain i is issuing has been written by the
\* same drain before
SecondWriteOfKey(i) ==
    \E j \in 1..(drains[i].next - 1) : drains[i].batch[j].key = Reached(i).key

\* C26: a burst of storage changes on a synced key, none of them a quiet
\* period after the one before, is followed by one drain of the queue and by
\* one remote write: the drain that the debounce timeout starts writes each
\* key once, whatever the number of changes of the burst.
C26_BurstMakesOneRemoteWrite ==
    \A i \in 1..Len(drains) : ~SecondWriteOfKey(i)


-----------------------------------------------------------------------------
(* Claims about StorageManager.set *)

\* the fifth of n, rounded up
FifthRoundedUp(n) == CHOOSE m \in 0..n : 5 * m >= n /\ 5 * m < n + 5

\* the keys removed are the oldest fifth of the entries held, rounded up: as
\* many as that, none of them newer than an entry that was kept, and the
\* entries that were kept are left as they were
OldestFifthRemoved(held, removed, left) ==
    /\ removed \subseteq EntriesOf(held)
    /\ Cardinality(removed) = FifthRoundedUp(Cardinality(EntriesOf(held)))
    /\ \A r \in removed, k \in EntriesOf(held) \ removed : held[r] <= held[k]
    /\ \A k \in StoreKeys : left[k] = IF k \in removed THEN NoEntry ELSE held[k]

\* C30: when a write of StorageManager.set fails with a quota error, set runs
\* one eviction pass, which removes the oldest 20% of the stored entries by
\* _timestamp, rounded up, and retries the write once; when the retry fails as
\* well, false is returned to the caller, and there is no further eviction
\* and no further retry.
C30_QuotaErrorEvictsOnceAndRetriesOnce ==
    /\ setCall.evictions <= 1
    /\ setCall.writes <= 2
    /\ setCall.quota =>
          /\ setCall.evictions = 1
          /\ setCall.pc \in {"retrying", "done"} => setCall.writes = 2
          /\ (setCall.pc = "retrying" /\ setCall.evicted = "done")
                => OldestFifthRemoved(setCall.held, setCall.removed, area)
          /\ setCall.pc = "done" =>
                /\ setCall.retried \in {"stored", "rejected"}
                /\ setCall.result <=> setCall.retried = "stored"
    /\ (setCall.pc = "done" /\ ~setCall.quota) =>
          /\ setCall.evictions = 0
          /\ setCall.writes = 1
          /\ setCall.retried = "none"

\* the eviction pass has removed one of four entries, a fifth rounded up, and
\* the retry has failed
C30_Witness ==
    /\ setCall.pc = "done"
    /\ setCall.quota
    /\ setCall.retried = "rejected"
    /\ ~setCall.result
    /\ setCall.evicted = "done"
    /\ Cardinality(setCall.removed) = 1
    /\ Cardinality(EntriesOf(setCall.held)) = 4


-----------------------------------------------------------------------------
(* Claims about the session *)

\* C31: getSession never returns a session whose expires_at lies in the past
\* at the time of the call, whether the session was held in memory or is
\* loaded from storage by the call.
C31_NoExpiredSessionReturned ==
    (auth.asked /\ auth.got.present) => auth.got.expires_at * 1000 >= auth.gotAt


-----------------------------------------------------------------------------
(* Claims about the free-tier limits *)

\* the number of entries of a list of a blocklist object
CountOf(obj, field) == Len(GetOrEmpty(obj, field))

\* C32: the blocklist of a free-tier user never holds more than KEYWORD_LIMIT
\* keywords or DOMAIN_LIMIT domains, remote or cached, after any sequence of
\* addKeyword, addDomain, importGithubList and BLOCKLIST_UPDATE requests.
C32_FreeTierLimitsHold ==
    /\ CountOf(remoteRow, "keywords") <= KEYWORD_LIMIT
    /\ CountOf(remoteRow, "domains") <= DOMAIN_LIMIT
    /\ cache.present =>
          /\ CountOf(cache.obj, "keywords") <= KEYWORD_LIMIT
          /\ CountOf(cache.obj, "domains") <= DOMAIN_LIMIT


-----------------------------------------------------------------------------
(* Claims about what one local write sets off *)

\* C33: after one local write to a synced key and no further user action the
\* sync service comes to rest: replaying an operation does not keep enqueuing
\* new operations, so the operations enqueued never reach the MaxOps that
\* the run allows.
C33_OneWriteComesToRest == Len(opsMade) < MaxOps


-----------------------------------------------------------------------------
(* Claims about the stopped scheduler *)

\* the drains started by the debounce timer or the online event
OwnDrains(ds) == Len(SelectSeq(ds, LAMBDA d : d.owner = 0))

\* C34: after stop() has returned and until start() is called again the sync
\* service begins no sync cycle and no queue drain of its own: the retry
\* timers and the debounce timer pending at the time of stop() fire nothing.
C34_StoppedServiceStartsNothing ==
    [][(cycles > 0 /\ ~syncInterval /\ ~syncInterval')
          => (cycles' = cycles /\ OwnDrains(drains') <= OwnDrains(drains))]_vars


-----------------------------------------------------------------------------
(* Claims about overlapping drains *)

\* the blocklist operations enqueued so far
BlocklistOps == {id \in 1..Len(opsMade) : opsMade[id] = "fokus_blocklist"}

\* the blocklist operation enqueued last
LastBlocklistOp == CHOOSE id \in BlocklistOps : \A other \in BlocklistOps : other <= id

\* every operation enqueued has been replayed and its remote write succeeded
AllDrainedWithoutFailure ==
    /\ syncQueue = <<>>
    /\ drains = <<>>
    /\ \A id \in 1..Len(opsMade) : id \in applied

\* C35: once all pending operations have been drained without failure, the
\* remote blocklist is the newValue of the blocklist operation enqueued last,
\* also when drains started by the debounce timer and the online event
\* overlap.
C35_RemoteIsTheLastQueuedBlocklist ==
    (AllDrainedWithoutFailure /\ BlocklistOps # {}) =>
        \A field \in {"keywords", "domains", "github_urls"} :
            Get(remoteRow, field) = Get(QueuedBlocklist(LastBlocklistOp), field)


-----------------------------------------------------------------------------
(* Claims about overlapping blocklist mutations *)

\* the blocklist shows what mutation p was to do
EffectIn(p, blocklist) ==
    LET in == mutating[p]
    IN  /\ in.op = "addDomain" =>
              arrIncludes(Get(blocklist, "domains"), normalizeDomain(in.arg))
        /\ in.op = "addKeyword" => arrIncludes(Get(blocklist, "keywords"), in.arg)
        /\ in.op = "removeDomain" => ~arrIncludes(Get(blocklist, "domains"), in.arg)

BothSucceeded == \A p \in Mutators : mutating[p].pc = "done" /\ mutating[p].success

\* C36: when two blocklist mutations, overlapping in time or not, have both
\* reported success, the blocklist, remote and cached, contains the effect of
\* both.
C36_BothMutationsTakeEffect ==
    BothSucceeded =>
        \A p \in Mutators : EffectIn(p, remoteRow) /\ EffectIn(p, cache.obj)


-----------------------------------------------------------------------------
(* Claims about the storage manager's cache *)

\* a get has been answered since the last write
GetAnswered == kv.wrote /\ kv.getter # 0

\* C37: get(key) issued after a completed set(key, v) on the same storage
\* manager, v a plain object or an array, returns a value equal to v, while
\* the cache entry is live and after it has expired.
C37_GetReturnsWhatWasSet ==
    (GetAnswered /\ kv.getter = kv.writer /\ kv.written # UndefinedValue)
        => kv.got = kv.written

\* what a read of the storage answers now
StoredNow == IF kv.stored = UndefinedValue THEN NullValue ELSE kv.stored

\* C38: a get(key) that starts on a storage manager after a set or a remove
\* has completed on another one, or after the storage was changed from
\* outside, returns the value stored now, never an older value of its cache.
C38_GetSeesOtherInstancesWrites ==
    (GetAnswered /\ kv.getter # kv.writer) => kv.got = StoredNow


-----------------------------------------------------------------------------
(* Claims about the sign-out *)

\* AUTH_SIGN_OUT has been answered with success
SignedOut == signingOut.pc = "done" /\ signingOut.success

\* C39: after AUTH_SIGN_OUT has returned success the session is null and no
\* dynamic rule is installed, and none is installed until a user is
\* authenticated again, also when a rule recompilation was in flight when the
\* sign-out started.
C39_NoRulesAfterSignOut ==
    (SignedOut /\ ~session) => installedRules = <<>>

=============================================================================
